---- MODULE Spec2Model ----
(***************************************************************************)
(* Model of the salary simulator's calculation core:                       *)
(*   - CalculateNetSalaryService (irs-withholding engine): setDataset,     *)
(*     calculate, pickTableId, pickBand, resolveDeduction, round2;         *)
(*   - SalaryReverseService (reverse solver): getProposals,                *)
(*     solveForAnnualCost, calculateOutputs;                               *)
(*   - SimulatorComponent: calculate, its interval and its timeout,        *)
(*     ngOnDestroy, calculateByAnnualCost, calculateByNetSalaryTarget,     *)
(*     mapToSimulationResult.                                              *)
(*                                                                         *)
(* Numbers.  The code computes with IEEE doubles.  The engine is modelled  *)
(* with exact decimals: a Dec is a record [m, e] standing for m / 10^e,    *)
(* kept normalised (no trailing zero in m while e > 0).  Sums, products    *)
(* and comparisons of decimals are exact; round2 is Math.round's           *)
(* round-half-up (towards +infinity) at the second decimal.                *)
(* On the inputs of the engine's specification the decimals and the        *)
(* doubles give the same results; round2 on doubles, where they do not,    *)
(* is modelled on its own (SpecRound).                                     *)
(* NaN, the infinities and undefined are separate kinds of a JS number.    *)
(* An optional field is a sequence of length 0 (absent) or 1 (present).    *)
(* A string is a sequence of one-character strings.                        *)
(***************************************************************************)
EXTENDS Integers, Sequences, FiniteSets, TLC

VARIABLES
    data,       \* CalculateNetSalaryService.data: <<>> (unset) or <<dataset>>
    lastInput,  \* the IrsInput of the last calculate call (<<>> before any)
    dataAtCall, \* the data field as the last calculate or getProposals call found it
    out,        \* outcome of the last calculate call: [err, res]
    supplied,   \* the argument of the last setDataset call (<<>> before any)
    earlier,    \* an earlier calculate call the caller kept: <<>> or
                \* <<[input, data, out, at, repeatedAt]>>
    dedArg,     \* a direct call of resolveDeduction: its deduction argument
    rArg,       \* a direct call of resolveDeduction: its R argument (a Dec)
    resolved,   \* a direct call of resolveDeduction: <<>> or <<outcome [err, v]>>
    roundArg,   \* round2 on doubles: the gross salary whose contribution is rounded
    rounded,    \* round2 on doubles: <<>> or <<round2(grossSalary * rate)>> (a Dec)
    rin,        \* getProposals: the ReverseCalculationInput (<<>> when idle)
    pc,         \* getProposals: "idle" | "loop" | "done" | "failed"
    loopPct,    \* getProposals: pct, the percentage being solved
    iter,       \* solveForAnnualCost: loop counter i
    low,        \* solveForAnnualCost: low
    high,       \* solveForAnnualCost: high
    bestResult, \* solveForAnnualCost: <<>> (null) or <<CalculationProposal>>
    proposals,  \* getProposals: proposals pushed so far
    rerr,       \* getProposals: "" or the message of the error it threw
    form,       \* SimulatorComponent: the fields bound to the form
    isLoading,  \* SimulatorComponent.isLoading
    displayedLoadingPhrases, \* SimulatorComponent.displayedLoadingPhrases
    liquidSalarySimulations, \* SimulatorComponent.liquidSalarySimulations
    loadingTimer, \* SimulatorComponent.loadingTimer: <<>> (undefined) or <<timer id>>
    pickedHasDuodecimos,      \* SimulatorComponent.pickedHasDuodecimos
    pickedIHTPercentage,      \* SimulatorComponent.pickedIHTPercentage
    annualDailyMealAllowance, \* SimulatorComponent.annualDailyMealAllowance
    monthlyMealAllowance,     \* SimulatorComponent.monthlyMealAllowance
    timers,     \* the window's live timers: [id, repeats, due, phraseIndex, interval],
                \* due the milliseconds until the callback runs, phraseIndex the
                \* variable of calculate() the interval's callback closes over,
                \* interval the id of the interval started by the same calculate()
    destroyed,  \* ngOnDestroy has run
    lastRun     \* <<>> or <<what the last timeout callback computed:
                \* [err, proposals, simulations, calls]>>

engineVars == <<data, lastInput, dataAtCall, out, supplied, earlier>>
resolveVars == <<dedArg, rArg, resolved, roundArg, rounded>>
solverVars == <<rin, pc, loopPct, iter, low, high, bestResult, proposals, rerr>>
componentVars == <<form, isLoading, displayedLoadingPhrases, liquidSalarySimulations,
                   loadingTimer, pickedHasDuodecimos, pickedIHTPercentage,
                   annualDailyMealAllowance, monthlyMealAllowance, timers, destroyed,
                   lastRun>>
vars == <<data, lastInput, dataAtCall, out, supplied, earlier, dedArg, rArg, resolved,
          roundArg, rounded,
          rin, pc, loopPct, iter, low, high, bestResult, proposals, rerr,
          form, isLoading, displayedLoadingPhrases, liquidSalarySimulations,
          loadingTimer, pickedHasDuodecimos, pickedIHTPercentage,
          annualDailyMealAllowance, monthlyMealAllowance, timers, destroyed, lastRun>>

----------------------------------------------------------------------------
(* Exact decimal arithmetic *)

RECURSIVE Pow10(_)
Pow10(n) == IF n <= 0 THEN 1 ELSE 10 * Pow10(n - 1)

RECURSIVE Norm(_)
Norm(d) == IF d.e > 0 /\ d.m % 10 = 0
           THEN Norm([m |-> d.m \div 10, e |-> d.e - 1])
           ELSE d

Dec(m, e) == Norm([m |-> m, e |-> e])
Int2Dec(n) == [m |-> n, e |-> 0]
Zero == Int2Dec(0)

MaxOf(a, b) == IF a >= b THEN a ELSE b
DScale(d, e) == d.m * Pow10(e - d.e)
DAdd(a, b) == LET e == MaxOf(a.e, b.e) IN Dec(DScale(a, e) + DScale(b, e), e)
DSub(a, b) == LET e == MaxOf(a.e, b.e) IN Dec(DScale(a, e) - DScale(b, e), e)
DMul(a, b) == Dec(a.m * b.m, a.e + b.e)
DLeq(a, b) == LET e == MaxOf(a.e, b.e) IN DScale(a, e) <= DScale(b, e)
DLt(a, b) == LET e == MaxOf(a.e, b.e) IN DScale(a, e) < DScale(b, e)
DMax(a, b) == IF DLeq(b, a) THEN a ELSE b
IsInteger(d) == Norm(d).e = 0

(* Optional values *)
None == << >>
Some(x) == << x >>
Has(o) == Len(o) = 1
OrElse(o, dflt) == IF Has(o) THEN o[1] ELSE dflt

----------------------------------------------------------------------------
(* JS numbers that may be NaN, infinite or undefined (fields of the input) *)

Num(d) == [k |-> "num", v |-> d]
NaN == [k |-> "NaN", v |-> Zero]
PosInfinity == [k |-> "Infinity", v |-> Zero]
NegInfinity == [k |-> "-Infinity", v |-> Zero]
Undefined == [k |-> "undefined", v |-> Zero]

\* Number.isFinite(x), Number.isInteger(x)
NumberIsFinite(x) == x.k = "num"
NumberIsInteger(x) == x.k = "num" /\ IsInteger(x.v)
\* x <= 0 and x < 0: false for NaN and undefined (which converts to NaN)
JsLeqZero(x) == \/ x.k = "num" /\ DLeq(x.v, Zero)
                \/ x.k = "-Infinity"
JsLtZero(x) == \/ x.k = "num" /\ DLt(x.v, Zero)
               \/ x.k = "-Infinity"

----------------------------------------------------------------------------
(* CalculateNetSalaryService *)

\* The messages of the errors the service throws
ErrDatasetNotSet == "IRS dataset not set"
ErrGrossSalary == "grossSalary must be a positive number"
ErrDependents == "dependents must be an integer >= 0"
ErrLocation == "Location not supported by this dataset"
ErrTableNotFound == "Table not found in dataset"
ErrNoBand == "No matching band found"
ErrUnsupportedFormula == "Unsupported deduction formula expression"
ErrInvalidNumbers == "Invalid numbers in deduction formula"
ErrInvalidDeduction == "Invalid deduction field"

\* The error kinds of the design, by message
ConfigurationError == {ErrDatasetNotSet}
ValidationError == {ErrGrossSalary, ErrDependents, ErrLocation}
TableNotFoundError == {ErrTableNotFound}
BandNotFoundError == {ErrNoBand}
UnsupportedFormulaError == {ErrUnsupportedFormula, ErrInvalidNumbers}

\* Math.round((n + Number.EPSILON) * 100) / 100
Round2HalfDown(n) ==
    IF n.e <= 2 THEN Norm(n)
    ELSE Dec((n.m + 5 * Pow10(n.e - 3) - 1) \div Pow10(n.e - 2), 2)

round2(n) ==
    IF n.e <= 2 THEN Norm(n)
    ELSE Dec((n.m + 5 * Pow10(n.e - 3)) \div Pow10(n.e - 2), 2)

PickTableIdSwapped(maritalStatus, dependents, hasDisability) ==
    IF hasDisability
    THEN IF maritalStatus = "married_one_holder" THEN "VII"
         ELSE IF maritalStatus = "married_two_holders"
              THEN (IF DLeq(Int2Dec(1), dependents) THEN "V" ELSE "IV")
              ELSE (IF DLeq(Int2Dec(1), dependents) THEN "VI" ELSE "IV")
    ELSE IF maritalStatus = "married_one_holder" THEN "III"
         ELSE (IF DLeq(Int2Dec(1), dependents) THEN "II" ELSE "I")

pickTableId(maritalStatus, dependents, hasDisability) ==
    IF hasDisability
    THEN IF maritalStatus = "married_one_holder" THEN "VII"
         ELSE IF maritalStatus = "married_two_holders"
              THEN (IF DLeq(Int2Dec(1), dependents) THEN "VI" ELSE "IV")
              ELSE (IF DLeq(Int2Dec(1), dependents) THEN "V" ELSE "IV")
    ELSE IF maritalStatus = "married_one_holder" THEN "III"
         ELSE (IF DLeq(Int2Dec(1), dependents) THEN "II" ELSE "I")

\* The comparator of pickBand's sort, au - bu with a missing upTo taken as
\* +Infinity: its sign, and 0 for Infinity - Infinity = NaN.
CompareUpTo(a, b) ==
    IF Has(a.upTo) /\ Has(b.upTo)
    THEN (IF DLt(a.upTo[1], b.upTo[1]) THEN -1
          ELSE IF DLt(b.upTo[1], a.upTo[1]) THEN 1 ELSE 0)
    ELSE IF Has(a.upTo) THEN -1
    ELSE IF Has(b.upTo) THEN 1
    ELSE 0

\* Array.prototype.sort is stable: x goes after every element not above it
RECURSIVE InsertBand(_, _)
InsertBand(sorted, x) ==
    IF sorted = << >> THEN << x >>
    ELSE IF CompareUpTo(Head(sorted), x) > 0 THEN << x >> \o sorted
    ELSE << Head(sorted) >> \o InsertBand(Tail(sorted), x)

RECURSIVE SortBands(_)
SortBands(bands) ==
    IF bands = << >> THEN << >>
    ELSE InsertBand(SortBands(SubSeq(bands, 1, Len(bands) - 1)), bands[Len(bands)])

\* The scan of pickBand over a sequence of bands, then the "over" fallback
ScanBands(sorted, grossSalary) ==
    LET hits == {i \in 1..Len(sorted) :
                    Has(sorted[i].upTo) /\ DLeq(grossSalary, sorted[i].upTo[1])}
        overs == {i \in 1..Len(sorted) : Has(sorted[i].over)}
        First(S) == CHOOSE i \in S : \A j \in S : i <= j
    IN  IF hits # {} THEN [err |-> "", band |-> Some(sorted[First(hits)])]
        ELSE IF overs # {} THEN [err |-> "", band |-> Some(sorted[First(overs)])]
        ELSE [err |-> ErrNoBand, band |-> None]

PickBandUnsorted(bands, grossSalary) == ScanBands(bands, grossSalary)

\* pickBand without the fallback: the error whenever no bounded band matches
PickBandNoFallback(bands, grossSalary) ==
    LET picked == ScanBands(SortBands(bands), grossSalary)
    IN  IF picked.err = "" /\ Has(picked.band[1].upTo)
           /\ DLeq(grossSalary, picked.band[1].upTo[1])
        THEN picked
        ELSE [err |-> ErrNoBand, band |-> None]

pickBand(bands, grossSalary) == ScanBands(SortBands(bands), grossSalary)

(* Deductions: a literal number or { type: 'formula', expression } *)
Literal(d) == [type |-> "number", value |-> d, expression |-> << >>]
Formula(expr) == [type |-> "formula", value |-> Zero, expression |-> expr]

Digits == {"0", "1", "2", "3", "4", "5", "6", "7", "8", "9"}
NumberClass == Digits \cup {"."}         \* the class [0-9.] of the pattern
Whitespace == {" ", "\t"}                \* what \s matches, of the model's characters

DigitValue(c) ==
    CASE c = "0" -> 0 [] c = "1" -> 1 [] c = "2" -> 2 [] c = "3" -> 3 [] c = "4" -> 4
      [] c = "5" -> 5 [] c = "6" -> 6 [] c = "7" -> 7 [] c = "8" -> 8 [] c = "9" -> 9

NotWhitespace(c) == c \notin Whitespace
\* expression.replace(/\s+/g, '')
StripWhitespace(expr) == SelectSeq(expr, NotWhitespace)

IsDot(c) == c = "."
IsDigit(c) == c \in Digits
RECURSIVE DigitsValue(_)
DigitsValue(s) ==
    IF s = << >> THEN 0
    ELSE 10 * DigitsValue(SubSeq(s, 1, Len(s) - 1)) + DigitValue(s[Len(s)])

\* Number(s) for s matched by [0-9.]+ : None stands for NaN
\* (more than one dot, or no digit); "1." is 1 and ".5" is 0.5.
NumberOf(s) ==
    LET dots == {i \in 1..Len(s) : s[i] = "."}
        digs == SelectSeq(s, IsDigit)
    IN  IF Cardinality(dots) > 1 \/ digs = << >> THEN None
        ELSE IF dots = {} THEN Some(Dec(DigitsValue(digs), 0))
        ELSE LET d == CHOOSE i \in dots : TRUE
             IN  Some(Dec(DigitsValue(digs), Len(s) - d))

\* The first index from i on whose character is outside [0-9.] (Len + 1 if none)
RECURSIVE RunEnd(_, _)
RunEnd(s, i) ==
    IF i <= Len(s) /\ s[i] \in NumberClass THEN RunEnd(s, i + 1) ELSE i

At(s, i) == IF i >= 1 /\ i <= Len(s) THEN s[i] ELSE ""

\* expr.match(/^([0-9.]+)\*([0-9.]+)\*\(([0-9.]+)-R\)$/i): None, or the three groups.
\* Each group is a maximal run of the class, as the character after it is outside it.
MatchFormulaWith(expr, rs) ==
    LET i1 == RunEnd(expr, 1)
        i2 == RunEnd(expr, i1 + 1)
        i3 == RunEnd(expr, i2 + 2)
    IN  IF /\ i1 > 1
           /\ At(expr, i1) = "*"
           /\ i2 > i1 + 1
           /\ At(expr, i2) = "*"
           /\ At(expr, i2 + 1) = "("
           /\ i3 > i2 + 2
           /\ At(expr, i3) = "-"
           /\ At(expr, i3 + 1) \in rs
           /\ At(expr, i3 + 2) = ")"
           /\ Len(expr) = i3 + 2
        THEN Some(<< SubSeq(expr, 1, i1 - 1),
                     SubSeq(expr, i1 + 1, i2 - 1),
                     SubSeq(expr, i2 + 2, i3 - 1) >>)
        ELSE None

MatchFormula(expr) == MatchFormulaWith(expr, {"R", "r"})

ResolveDeductionNoFiniteCheck(deduction, r) ==
    IF deduction.type = "number" THEN [err |-> "", v |-> Some(deduction.value)]
    ELSE IF deduction.type = "formula"
    THEN LET m == MatchFormula(StripWhitespace(deduction.expression))
         IN  IF ~Has(m) THEN [err |-> ErrUnsupportedFormula, v |-> None]
             ELSE LET a == OrElse(NumberOf(m[1][1]), Zero)
                      b == OrElse(NumberOf(m[1][2]), Zero)
                      c == OrElse(NumberOf(m[1][3]), Zero)
                  IN  [err |-> "", v |-> Some(DMul(DMul(a, b), DSub(c, r)))]
    ELSE [err |-> ErrInvalidDeduction, v |-> None]

ResolveDeductionSwapped(deduction, r) ==
    IF deduction.type = "number" THEN [err |-> "", v |-> Some(deduction.value)]
    ELSE IF deduction.type = "formula"
    THEN LET m == MatchFormula(StripWhitespace(deduction.expression))
         IN  IF ~Has(m) THEN [err |-> ErrUnsupportedFormula, v |-> None]
             ELSE LET a == NumberOf(m[1][1])
                      b == NumberOf(m[1][2])
                      c == NumberOf(m[1][3])
                  IN  IF ~(Has(a) /\ Has(b) /\ Has(c))
                      THEN [err |-> ErrInvalidNumbers, v |-> None]
                      ELSE [err |-> "",
                            v |-> Some(DMul(DMul(a[1], b[1]), DSub(r, c[1])))]
    ELSE [err |-> ErrInvalidDeduction, v |-> None]

\* resolveDeduction(deduction, R): [err, v], v the value returned when err = ""
resolveDeduction(deduction, r) ==
    IF deduction.type = "number" THEN [err |-> "", v |-> Some(deduction.value)]
    ELSE IF deduction.type = "formula"
    THEN LET m == MatchFormula(StripWhitespace(deduction.expression))
         IN  IF ~Has(m) THEN [err |-> ErrUnsupportedFormula, v |-> None]
             ELSE LET a == NumberOf(m[1][1])
                      b == NumberOf(m[1][2])
                      c == NumberOf(m[1][3])
                  IN  IF ~(Has(a) /\ Has(b) /\ Has(c))
                      THEN [err |-> ErrInvalidNumbers, v |-> None]
                      ELSE [err |-> "",
                            v |-> Some(DMul(DMul(a[1], b[1]), DSub(c[1], r)))]
    ELSE [err |-> ErrInvalidDeduction, v |-> None]

\* grossSalary * rate - deduction - additionalPerDependent * dependents
IrsRawRoundedDeduction(grossSalary, rate, ded, additionalPerDependent, dependents) ==
    DSub(DSub(DMul(grossSalary, rate), round2(ded)),
         DMul(additionalPerDependent, dependents))

IrsRaw(grossSalary, rate, ded, additionalPerDependent, dependents) ==
    DSub(DSub(DMul(grossSalary, rate), ded),
         DMul(additionalPerDependent, dependents))

\* this.round2(Math.max(0, irsRaw))
IrsWithheldNoFloor(irsRaw) == round2(irsRaw)

IrsWithheld(irsRaw) == round2(DMax(Zero, irsRaw))

DefaultSocialSecurityRate == Dec(11, 2)

Failure(msg) == [err |-> msg, res |-> None]

\* this.data.tables.find(t => t.id === tableId) ?? this.data.tables[0]
FindTableOrFirst(tables, tableId) ==
    LET hits == {i \in 1..Len(tables) : tables[i].id = tableId}
    IN  IF hits = {} THEN (IF tables = << >> THEN None ELSE Some(tables[1]))
        ELSE Some(tables[CHOOSE i \in hits : \A j \in hits : i <= j])

FindTable(tables, tableId) ==
    LET hits == {i \in 1..Len(tables) : tables[i].id = tableId}
    IN  IF hits = {} THEN None
        ELSE Some(tables[CHOOSE i \in hits : \A j \in hits : i <= j])

\* Passo 2 of calculate: the message of the validation that fails, "" if none
ValidateInputZeroAllowed(inp) ==
    IF JsLtZero(inp.grossSalary) \/ ~NumberIsFinite(inp.grossSalary)
    THEN ErrGrossSalary
    ELSE IF JsLtZero(inp.dependents) \/ ~NumberIsInteger(inp.dependents)
    THEN ErrDependents
    ELSE IF inp.location # "continente"
    THEN ErrLocation
    ELSE ""

ValidateInput(inp) ==
    IF JsLeqZero(inp.grossSalary) \/ ~NumberIsFinite(inp.grossSalary)
    THEN ErrGrossSalary
    ELSE IF JsLtZero(inp.dependents) \/ ~NumberIsInteger(inp.dependents)
    THEN ErrDependents
    ELSE IF inp.location # "continente"
    THEN ErrLocation
    ELSE ""

\* Passos 3 to 9 of calculate, on a dataset and an input that passed validation
CalculateValidated(dataset, inp) ==
    LET hasDisability == OrElse(inp.hasDisability, FALSE)
        socialSecurityRate == OrElse(inp.socialSecurityRate, DefaultSocialSecurityRate)
        grossSalary == inp.grossSalary.v
        dependents == inp.dependents.v
        tableId == pickTableId(inp.maritalStatus, dependents, hasDisability)
        table == FindTable(dataset.tables, tableId)
    IN
    IF ~Has(table) THEN Failure(ErrTableNotFound)
    ELSE
    LET picked == pickBand(table[1].bands, grossSalary)
    IN
    IF picked.err # "" THEN Failure(picked.err)
    ELSE
    LET band == picked.band[1]
        rate == band.rate
        additionalPerDependent == OrElse(band.additionalPerDependent, Zero)
        ded == resolveDeduction(band.deduction, grossSalary)
    IN
    IF ded.err # "" THEN Failure(ded.err)
    ELSE
    LET irsRaw == IrsRaw(grossSalary, rate, ded.v[1], additionalPerDependent, dependents)
        irsWithheld == IrsWithheld(irsRaw)
        socialSecurity == round2(DMul(grossSalary, socialSecurityRate))
        netSalary == round2(DSub(DSub(grossSalary, irsWithheld), socialSecurity))
    IN  [err |-> "",
         res |-> Some([tableId |-> tableId,
                       band |-> band,
                       rate |-> rate,
                       deduction |-> round2(ded.v[1]),
                       additionalPerDependent |-> round2(additionalPerDependent),
                       irsWithheld |-> irsWithheld,
                       socialSecurity |-> socialSecurity,
                       netSalary |-> netSalary])]

CalculateValidationFirst(dataOpt, inp) ==
    IF ValidateInput(inp) # "" THEN Failure(ValidateInput(inp))
    ELSE IF ~Has(dataOpt) THEN Failure(ErrDatasetNotSet)
    ELSE CalculateValidated(dataOpt[1], inp)

\* calculate reusing the dataset of the call before it (a memoised table
\* lookup that setDataset does not reset)
CalculateMemoised(dataOpt, inp) ==
    IF ~Has(dataOpt) THEN Failure(ErrDatasetNotSet)
    ELSE IF ValidateInput(inp) # "" THEN Failure(ValidateInput(inp))
    ELSE CalculateValidated((IF Has(dataAtCall) THEN dataAtCall ELSE dataOpt)[1], inp)

\* calculate(input) on the service whose data field is dataOpt: [err, res],
\* err the message of the error thrown ("" if none), res the result returned
Calculate(dataOpt, inp) ==
    IF ~Has(dataOpt) THEN Failure(ErrDatasetNotSet)
    ELSE IF ValidateInput(inp) # "" THEN Failure(ValidateInput(inp))
    ELSE CalculateValidated(dataOpt[1], inp)

----------------------------------------------------------------------------
(* Datasets *)

UpToBand(upTo, rate, ded, apd) ==
    [upTo |-> Some(upTo), over |-> None, rate |-> rate, deduction |-> ded,
     additionalPerDependent |-> apd]
OverBand(over, rate, ded, apd) ==
    [upTo |-> None, over |-> Some(over), rate |-> rate, deduction |-> ded,
     additionalPerDependent |-> apd]
Table(id, bands) == [id |-> id, bands |-> bands]

\* '0.125 * 2.60 * (1273.85 - R)'
MockExpression ==
    << "0", ".", "1", "2", "5", " ", "*", " ", "2", ".", "6", "0", " ", "*", " ",
       "(", "1", "2", "7", "3", ".", "8", "5", " ", "-", " ", "R", ")" >>

\* The bands of Table I of the service's test dataset
MockTableIBands ==
    << UpToBand(Int2Dec(920), Zero, Literal(Zero), None),
       UpToBand(Int2Dec(1042), Dec(125, 3), Formula(MockExpression), Some(Dec(2143, 2))),
       OverBand(Int2Dec(1042), Dec(2, 1), Literal(Int2Dec(100)), None) >>

FlatBands == << UpToBand(Int2Dec(5000), Dec(1, 1), Literal(Zero), None) >>

\* The test dataset, with Table I's bands stored as tableIBands
MockDataset(tableIBands) ==
    [tables |-> << Table("I", tableIBands), Table("II", FlatBands),
                   Table("III", FlatBands), Table("IV", FlatBands),
                   Table("V", FlatBands), Table("VI", FlatBands),
                   Table("VII", FlatBands) >>]

\* Every order in which a sequence of bands can be stored
StoredOrders(bands) ==
    {[i \in 1..Len(bands) |-> bands[p[i]]] : p \in Permutations(1..Len(bands))}

\* Tables I and II of the 2026 dataset around the band the tests name
\* (rate 0.212, deduction 158.18, and 34.29 per dependent in Table II);
\* the dataset holds no other table.
ReferenceBands(apd1, apd2) ==
    << UpToBand(Int2Dec(920), Zero, Literal(Zero), None),
       UpToBand(Int2Dec(1042), Dec(125, 3), Formula(MockExpression), apd1),
       UpToBand(Int2Dec(1212), Dec(212, 3), Literal(Dec(15818, 2)), apd2),
       OverBand(Int2Dec(1212), Dec(241, 3), Literal(Dec(19333, 2)), apd2) >>

ReferenceDataset ==
    [tables |-> << Table("I", ReferenceBands(None, None)),
                   Table("II", ReferenceBands(Some(Dec(2143, 2)), Some(Dec(3429, 2)))) >>]

\* '2 * R'
TwoTimesR == << "2", " ", "*", " ", "R" >>

\* A dataset that breaks the data model: Table I has no open band, Table II
\* a formula outside the grammar, Table III a deduction that is neither a
\* number nor a formula.
MalformedDataset ==
    [tables |-> << Table("I", << UpToBand(Int2Dec(920), Zero, Literal(Zero), None) >>),
                   Table("II", << OverBand(Zero, Dec(1, 1), Formula(TwoTimesR), None) >>),
                   Table("III", << OverBand(Zero, Dec(1, 1),
                                    [type |-> "other", value |-> Zero,
                                     expression |-> << >>], None) >>) >>]

Datasets ==
    {MockDataset(bs) : bs \in StoredOrders(MockTableIBands)}
        \cup {ReferenceDataset, MalformedDataset}

(* Inputs of calculate *)

MaxDependents == 2

MaritalStatuses == {"single", "married_one_holder", "married_two_holders"}

GrossValues ==
    {Int2Dec(900), Int2Dec(920), Dec(92011, 2), Int2Dec(921), Dec(1000005, 3),
     Int2Dec(1200), Int2Dec(1500)}

\* Gross salaries one cent apart, within one band
NeighbourGross == {Dec(92059, 2), Dec(9206, 1), Dec(150022, 2), Dec(150023, 2)}

IrsInput(g, ms, loc, deps, dis, ss) ==
    [grossSalary |-> g, maritalStatus |-> ms, location |-> loc, dependents |-> deps,
     hasDisability |-> dis, socialSecurityRate |-> ss]

ValidInputs ==
    {IrsInput(Num(g), ms, "continente", Num(Int2Dec(d)), None, None) :
        g \in GrossValues, ms \in MaritalStatuses, d \in 0..MaxDependents}
    \cup
    {IrsInput(Num(g), ms, "continente", Num(Int2Dec(d)), Some(TRUE), None) :
        g \in {Int2Dec(900), Int2Dec(1200)}, ms \in MaritalStatuses,
        d \in 0..MaxDependents}
    \cup
    {IrsInput(Num(g), "single", "continente", Num(Zero), Some(FALSE), ss) :
        g \in {Int2Dec(1000), Int2Dec(1200)},
        ss \in {Some(Zero), Some(Dec(11, 2)), Some(Dec(2, 1))}}
    \cup
    {IrsInput(Num(g), "single", "continente", Num(Zero), None, None) :
        g \in NeighbourGross}

\* {} as any
EmptyInput == IrsInput(Undefined, "undefined", "undefined", Undefined, None, None)

InvalidInputs ==
    {IrsInput(g, "single", loc, d, None, None) :
        g \in {NaN, PosInfinity, NegInfinity, Undefined, Num(Zero), Num(Int2Dec(-5))},
        loc \in {"continente", "madeira"},
        d \in {Num(Zero), Num(Int2Dec(-1))}}
    \cup
    {IrsInput(Num(Int2Dec(1000)), "single", loc, d, None, None) :
        loc \in {"continente", "acores"},
        d \in {Num(Int2Dec(-1)), Num(Dec(15, 1)), NaN, Undefined, PosInfinity}}
    \cup
    {IrsInput(Num(g), "single", loc, Num(Zero), None, None) :
        g \in {Int2Dec(900), Int2Dec(1200)},
        loc \in {"madeira", "acores", "undefined"}}
    \cup {EmptyInput}

Inputs == ValidInputs \cup InvalidInputs

----------------------------------------------------------------------------
(* The engine: setDataset and calculate in any order *)

NoOutcome == [err |-> "", res |-> None]

SolverIdle ==
    /\ rin = None /\ pc = "idle" /\ loopPct = 0 /\ iter = 0
    /\ low = [i |-> 0, f |-> << >>] /\ high = [i |-> 0, f |-> << >>]
    /\ bestResult = None /\ proposals = << >> /\ rerr = ""

\* SimulatorComponent: the fields of the form as the class initialises them
InitialForm ==
    [hasDuodecimos |-> FALSE, IhtPercentage |-> 25, calculateBy |-> "annualCost",
     annualCost |-> Int2Dec(30000), targetNetSalary |-> 2000, maritalStatus |-> "single",
     location |-> "continente", dependents |-> 0]

loadingPhrases == << "Espera...", "Quase...", "A finalizar..." >>

\* The component as constructed, before any calculate()
ComponentIdle ==
    /\ form = InitialForm
    /\ isLoading = FALSE
    /\ displayedLoadingPhrases = << >>
    /\ liquidSalarySimulations = << >>
    /\ loadingTimer = None
    /\ pickedHasDuodecimos = FALSE
    /\ pickedIHTPercentage = 0
    /\ annualDailyMealAllowance = Zero
    /\ monthlyMealAllowance = Zero
    /\ timers = {}
    /\ destroyed = FALSE
    /\ lastRun = None

RoundIdle == roundArg = Zero /\ rounded = None

ResolveIdle == dedArg = Literal(Zero) /\ rArg = Zero /\ resolved = None /\ RoundIdle

Init ==
    /\ data = None
    /\ lastInput = None
    /\ dataAtCall = None
    /\ out = NoOutcome
    /\ supplied = None
    /\ earlier = None
    /\ ResolveIdle
    /\ SolverIdle
    /\ ComponentIdle

\* this.data ??= dataset: only the first dataset supplied is kept
SetDatasetOnce(dataset) ==
    /\ data' = IF Has(data) THEN data ELSE Some(dataset)
    /\ supplied' = Some(dataset)
    /\ UNCHANGED <<lastInput, dataAtCall, out, earlier>>
    /\ UNCHANGED resolveVars
    /\ UNCHANGED solverVars
    /\ UNCHANGED componentVars

SetDataset(dataset) ==
    /\ data' = Some(dataset)
    /\ supplied' = Some(dataset)
    /\ UNCHANGED <<lastInput, dataAtCall, out, earlier>>
    /\ UNCHANGED resolveVars
    /\ UNCHANGED solverVars
    /\ UNCHANGED componentVars

CalculateCall(inp) ==
    /\ lastInput' = Some(inp)
    /\ dataAtCall' = data
    /\ out' = Calculate(data, inp)
    /\ UNCHANGED <<data, supplied, earlier>>
    /\ UNCHANGED resolveVars
    /\ UNCHANGED solverVars
    /\ UNCHANGED componentVars

Next ==
    \/ \E dataset \in Datasets : SetDataset(dataset)
    \/ \E inp \in Inputs : CalculateCall(inp)

Spec == Init /\ [][Next]_vars

----------------------------------------------------------------------------
(* resolveDeduction called on its own, as the service's tests call it *)

\* Digit-and-dot runs: numbers ("1." is 1, ".5" is 0.5) and runs that are none
Run0125 == << "0", ".", "1", "2", "5" >>
Run260 == << "2", ".", "6", "0" >>
Run127385 == << "1", "2", "7", "3", ".", "8", "5" >>
Run2 == << "2" >>
RunOneDot == << "1", "." >>
RunDotFive == << ".", "5" >>
Run123 == << "1", ".", "2", ".", "3" >>
RunDot == << "." >>

RunsA == {Run0125, Run2, RunOneDot, RunDotFive, Run123, RunDot}
RunsB == {Run260, Run2, Run123}
RunsC == {Run127385, RunDotFive, Run123}

\* The ways the model writes an expression around three runs a, b, c
Layouts ==
    {"a * b * (c - R)", "a*b*(c-R)", "a*b*(c-r)", " a*b *(\tc -R ) ",
     "a*b*(R-c)", "a*b*c-R", "a*b*(c-R", "a+b*(c-R)", "a*(c-R)", "-a*b*(c-R)",
     "a*b*(c-X)", "a*b*(c-R)*b", "a*b*(c--R)", "a*b*(-R)"}

Expression(a, b, c, layout) ==
    CASE layout = "a * b * (c - R)" ->
            a \o << " ", "*", " " >> \o b \o << " ", "*", " ", "(" >> \o c
              \o << " ", "-", " ", "R", ")" >>
      [] layout = "a*b*(c-R)" ->
            a \o << "*" >> \o b \o << "*", "(" >> \o c \o << "-", "R", ")" >>
      [] layout = "a*b*(c-r)" ->
            a \o << "*" >> \o b \o << "*", "(" >> \o c \o << "-", "r", ")" >>
      [] layout = " a*b *(\tc -R ) " ->
            << " " >> \o a \o << "*" >> \o b \o << " ", "*", "(", "\t" >> \o c
              \o << " ", "-", "R", " ", ")", " " >>
      [] layout = "a*b*(R-c)" ->
            a \o << "*" >> \o b \o << "*", "(", "R", "-" >> \o c \o << ")" >>
      [] layout = "a*b*c-R" ->
            a \o << "*" >> \o b \o << "*" >> \o c \o << "-", "R" >>
      [] layout = "a*b*(c-R" ->
            a \o << "*" >> \o b \o << "*", "(" >> \o c \o << "-", "R" >>
      [] layout = "a+b*(c-R)" ->
            a \o << "+" >> \o b \o << "*", "(" >> \o c \o << "-", "R", ")" >>
      [] layout = "a*(c-R)" ->
            a \o << "*", "(" >> \o c \o << "-", "R", ")" >>
      [] layout = "-a*b*(c-R)" ->
            << "-" >> \o a \o << "*" >> \o b \o << "*", "(" >> \o c \o << "-", "R", ")" >>
      [] layout = "a*b*(c-X)" ->
            a \o << "*" >> \o b \o << "*", "(" >> \o c \o << "-", "X", ")" >>
      [] layout = "a*b*(c-R)*b" ->
            a \o << "*" >> \o b \o << "*", "(" >> \o c \o << "-", "R", ")", "*" >> \o b
      [] layout = "a*b*(c--R)" ->
            a \o << "*" >> \o b \o << "*", "(" >> \o c \o << "-", "-", "R", ")" >>
      [] layout = "a*b*(-R)" ->
            a \o << "*" >> \o b \o << "*", "(", "-", "R", ")" >>

Expressions ==
    {Expression(a, b, c, layout) :
        a \in RunsA, b \in RunsB, c \in RunsC, layout \in Layouts}
    \cup {TwoTimesR, << >>, << "R" >>}

DeductionArgs ==
    {Literal(d) : d \in {Dec(9471, 2), Zero, Dec(-35, 1), Dec(8900125, 5)}}
    \cup {Formula(e) : e \in Expressions}
    \cup {[type |-> "other", value |-> Zero, expression |-> << >>]}

RValues == {Int2Dec(1000), Dec(92011, 2), Int2Dec(1500)}

EngineIdle ==
    /\ data = None /\ lastInput = None /\ dataAtCall = None /\ out = NoOutcome
    /\ supplied = None /\ earlier = None

InitResolve ==
    /\ EngineIdle
    /\ SolverIdle
    /\ dedArg \in DeductionArgs
    /\ rArg \in RValues
    /\ resolved = None
    /\ RoundIdle
    /\ ComponentIdle

ResolveDeductionCall ==
    /\ resolved = None
    /\ resolved' = Some(resolveDeduction(dedArg, rArg))
    /\ UNCHANGED <<dedArg, rArg, roundArg, rounded>>
    /\ UNCHANGED engineVars
    /\ UNCHANGED solverVars
    /\ UNCHANGED componentVars

NextResolve == ResolveDeductionCall

SpecResolve == InitResolve /\ [][NextResolve]_vars

----------------------------------------------------------------------------
(* SalaryReverseService *)

(***************************************************************************)
(* The bounds of the binary search are doubles.  They are modelled         *)
(* exactly: a Dyadic is a record [i, f], an integer part and the limbs of  *)
(* the fraction, LimbBits bits each, most significant first, without       *)
(* trailing zero limbs.  Its value is i + f[1]/B + f[2]/B^2 + ..., B being *)
(* LimbBase.  A sum is rounded to the 53 bits of a double's significand    *)
(* (ties to even); halving a double in this range is exact.                *)
(***************************************************************************)
LimbBits == 15
Pow2(n) == 2 ^ n
LimbBase == Pow2(LimbBits)

TrimZeros(f) ==
    LET nz == {k \in 1..Len(f) : f[k] # 0}
    IN  IF nz = {} THEN << >>
        ELSE SubSeq(f, 1, CHOOSE k \in nz : \A j \in nz : j <= k)

Dyadic(i, f) == [i |-> i, f |-> TrimZeros(f)]
DyInt(n) == [i |-> n, f |-> << >>]

PadTo(f, n) == [k \in 1..n |-> IF k <= Len(f) THEN f[k] ELSE 0]

\* The sum of two fractions of the same length, from limb k on: [limbs, carry]
RECURSIVE AddFrac(_, _, _)
AddFrac(a, b, k) ==
    IF k > Len(a) THEN [limbs |-> << >>, carry |-> 0]
    ELSE LET rest == AddFrac(a, b, k + 1)
             sum == a[k] + b[k] + rest.carry
         IN  [limbs |-> << sum % LimbBase >> \o rest.limbs,
              carry |-> sum \div LimbBase]

DyAdd(x, y) ==
    LET n == MaxOf(Len(x.f), Len(y.f))
        sum == AddFrac(PadTo(x.f, n), PadTo(y.f, n), 1)
    IN  Dyadic(x.i + y.i + sum.carry, sum.limbs)

DyHalf(x) ==
    LET n == Len(x.f)
        prev(k) == IF k = 1 THEN x.i ELSE x.f[k - 1]
        cur(k) == IF k <= n THEN x.f[k] ELSE 0
    IN  Dyadic(x.i \div 2,
               [k \in 1..(n + 1) |->
                   (prev(k) % 2) * (LimbBase \div 2) + cur(k) \div 2])

DyLeq(x, y) ==
    \/ x.i < y.i
    \/ /\ x.i = y.i
       /\ LET n == MaxOf(Len(x.f), Len(y.f))
              a == PadTo(x.f, n)
              b == PadTo(y.f, n)
          IN  \/ a = b
              \/ \E k \in 1..n : /\ a[k] < b[k]
                                 /\ \A j \in 1..(k - 1) : a[j] = b[j]

RECURSIVE BitLength(_)
BitLength(n) == IF n = 0 THEN 0 ELSE 1 + BitLength(n \div 2)

\* Bit k of a fraction (bit 1 is worth 1/2), and the number of its bits
FracBit(f, k) ==
    (f[(k - 1) \div LimbBits + 1] \div Pow2(LimbBits - 1 - ((k - 1) % LimbBits))) % 2
FracBits(f) == LimbBits * Len(f)

LeadingZeros(f) ==
    IF f = << >> THEN 0
    ELSE LET first == CHOOSE k \in 1..Len(f) :
                          f[k] # 0 /\ \A j \in 1..(k - 1) : f[j] = 0
         IN  LimbBits * first - BitLength(f[first])

\* The bits of a double's significand
SignificandBits == 53

\* Math.floor(x): the sum truncated to an integer
FloorToInteger(x) == DyInt(x.i)

\* x rounded to a double: to SignificandBits significant bits, ties to even
RoundToDouble(x) ==
    LET keep == IF x.i > 0 THEN SignificandBits - BitLength(x.i)
                ELSE LeadingZeros(x.f) + SignificandBits
    IN  IF FracBits(x.f) <= keep THEN x
        ELSE LET kept == [j \in 1..Len(x.f) |->
                             LET before == LimbBits * (j - 1)
                             IN  IF before + LimbBits <= keep THEN x.f[j]
                                 ELSE IF before >= keep THEN 0
                                 ELSE LET drop == before + LimbBits - keep
                                      IN  (x.f[j] \div Pow2(drop)) * Pow2(drop)]
                 roundBit == FracBit(x.f, keep + 1)
                 sticky == \E k \in (keep + 2)..FracBits(x.f) : FracBit(x.f, k) = 1
                 lsb == IF keep = 0 THEN x.i % 2 ELSE FracBit(x.f, keep)
                 down == Dyadic(x.i, kept)
                 ulp == IF keep = 0 THEN DyInt(1)
                        ELSE Dyadic(0, [j \in 1..Len(x.f) |->
                                 IF j = (keep - 1) \div LimbBits + 1
                                 THEN Pow2(LimbBits - 1 - ((keep - 1) % LimbBits))
                                 ELSE 0])
             IN  IF roundBit = 1 /\ (sticky \/ lsb = 1) THEN DyAdd(down, ulp) ELSE down

\* mid = (low + high) / 2
Midpoint(lo, hi) == DyHalf(RoundToDouble(DyAdd(lo, hi)))

----------------------------------------------------------------------------
(* round2 on doubles: Math.round((n + Number.EPSILON) * 100) / 100, for the *)
(* social security of a gross salary that is a whole number of half euros  *)

\* The product of a fraction and an integer below LimbBase, from limb k on
RECURSIVE MulFrac(_, _, _)
MulFrac(f, n, k) ==
    IF k > Len(f) THEN [limbs |-> << >>, carry |-> 0]
    ELSE [limbs |-> << (f[k] * n + MulFrac(f, n, k + 1).carry) % LimbBase >>
                        \o MulFrac(f, n, k + 1).limbs,
          carry |-> (f[k] * n + MulFrac(f, n, k + 1).carry) \div LimbBase]

DyMulSmall(x, n) == Dyadic(x.i * n + MulFrac(x.f, n, 1).carry, MulFrac(x.f, n, 1).limbs)

\* The double 0.11 = 7926335344172073 / 2^56, and Number.EPSILON = 2^-52
DoubleOfDefaultRate == Dyadic(0, << 3604, 15728, 20971, 17040 >>)
NumberEpsilon == Dyadic(0, << 0, 0, 0, 256 >>)

\* Math.round of a double >= 0: floor(x + 0.5)
MathRound(x) == x.i + (IF x.f # << >> /\ FracBit(x.f, 1) = 1 THEN 1 ELSE 0)

\* round2(n) for a double n >= 0, as the decimal the result prints as
Round2OfDouble(n) ==
    Dec(MathRound(RoundToDouble(DyMulSmall(RoundToDouble(DyAdd(n, NumberEpsilon)), 100))), 2)

\* grossSalary * socialSecurityRate for a gross salary of `halves` half euros
\* and the default rate: the exact product rounded to a double
ContributionOfDouble(halves) ==
    RoundToDouble(DyHalf(DyMulSmall(DoubleOfDefaultRate, halves)))

\* The gross salaries rounded: 1150, 1150.5, ..., in half euros
MaxHalfEuros == 120
GrossHalves == {2300 + k : k \in 0..MaxHalfEuros}

InitRound ==
    /\ EngineIdle
    /\ SolverIdle
    /\ dedArg = Literal(Zero) /\ rArg = Zero /\ resolved = None
    /\ roundArg \in {Dec(5 * h, 1) : h \in GrossHalves}
    /\ rounded = None
    /\ ComponentIdle

\* const socialSecurity = this.round2(grossSalary * socialSecurityRate)
SocialSecurityCall ==
    /\ rounded = None
    /\ rounded' = Some(Round2OfDouble(ContributionOfDouble(DScale(roundArg, 1) \div 5)))
    /\ UNCHANGED <<dedArg, rArg, resolved, roundArg>>
    /\ UNCHANGED engineVars
    /\ UNCHANGED solverVars
    /\ UNCHANGED componentVars

NextRound == SocialSecurityCall

SpecRound == InitRound /\ [][NextRound]_vars

(***************************************************************************)
(* The amounts calculateOutputs derives from the candidate annual cost are *)
(* carried in thousandths of a euro, each quotient rounded down, one tenth *)
(* of the cent the engine rounds to.                                       *)
(***************************************************************************)

\* floor(a * b / c), the product never formed
MulDiv(a, b, c) == (a \div c) * b + ((a % c) * b) \div c

\* A decimal with at most three decimals, and a double, in thousandths
Thousandths(d) == DScale(d, 3)
\* floor(n * 0.f) from limb k on, for n below LimbBase
RECURSIVE FloorOfFraction(_, _, _)
FloorOfFraction(f, k, n) ==
    IF k > Len(f) THEN 0
    ELSE (f[k] * n + FloorOfFraction(f, k + 1, n)) \div LimbBase

ToThousandths(x) == x.i * 1000 + FloorOfFraction(x.f, 1, 1000)
Euros(t) == Dec(t, 3)

ReverseInput(target, loc, ms, deps, duo, daily, days, months, iht, tsu, ss) ==
    [targetNetSalary |-> target, location |-> loc, maritalStatus |-> ms,
     dependents |-> deps, hasDuodecimos |-> duo, mealAllowanceDaily |-> daily,
     mealAllowanceDays |-> days, mealAllowanceMonths |-> months,
     ihtPercentage |-> iht, tsu |-> tsu, ssRate |-> ss]

\* The amounts of calculateOutputs, in thousandths; flexPct is pct / 100
MonthsToMultiply(input) == IF input.hasDuodecimos THEN 12 ELSE 14

AnnualDailyMealAllowance(input) ==
    DMul(DMul(input.mealAllowanceDaily, input.mealAllowanceDays),
         input.mealAllowanceMonths)

MonthlyMealAllowance(input) == DMul(input.mealAllowanceDaily, input.mealAllowanceDays)

ValueSubjectToTsu(input, annualCost) ==
    MaxOf(0, ToThousandths(annualCost) - Thousandths(AnnualDailyMealAllowance(input)))

TotalValueAfterTsu(input, annualCost) ==
    MulDiv(ValueSubjectToTsu(input, annualCost), 10000, 10000 + DScale(input.tsu, 2))

MonthlyValueToDistribute(input, annualCost) ==
    TotalValueAfterTsu(input, annualCost) \div MonthsToMultiply(input)

MonthlyValueToBenefits(input, annualCost, pct) ==
    MulDiv(TotalValueAfterTsu(input, annualCost), pct, 1200)

MonthlyValueWithoutBenefits(input, annualCost, pct) ==
    MonthlyValueToDistribute(input, annualCost)
        - MonthlyValueToBenefits(input, annualCost, pct)

MonthlyIHT(input, monthlyValueWithoutBenefits) ==
    MulDiv(monthlyValueWithoutBenefits, DScale(input.ihtPercentage, 2), 10000)

\* this.irsService.calculate({grossSalary, maritalStatus, location, dependents,
\* socialSecurityRate}) on the engine whose data field is dataOpt
EngineCall(dataOpt, input, grossSalary, socialSecurityRate) ==
    Calculate(dataOpt,
              IrsInput(Num(Euros(grossSalary)), input.maritalStatus, input.location,
                       Num(Int2Dec(input.dependents)), None, Some(socialSecurityRate)))

\* calculateOutputs with netSalaryMin taken from calculationMax:
\* totalNetMin = calculationMax.netSalary + monthlyValueToBenefits + meal
ProposalNetMinFromMax(input, annualCost, pct, amounts, calls) ==
    IF calls.max.err # "" THEN Failure(calls.max.err)
    ELSE IF calls.minIRS.err # "" THEN Failure(calls.minIRS.err)
    ELSE IF calls.ssForMin.err # "" THEN Failure(calls.ssForMin.err)
    ELSE [err |-> "",
          res |-> Some(
            [flexBenefitsPercentage |-> pct,
             annualCost |-> annualCost,
             monthlyBaseSalary |-> Euros(amounts.monthlyBaseSalary),
             monthlyIHT |-> Euros(amounts.monthlyIHT),
             monthlyBenefits |-> Euros(amounts.monthlyValueToBenefits),
             monthlyMealAllowance |-> MonthlyMealAllowance(input),
             irs |-> calls.max.res[1].irsWithheld,
             socialSecurityMax |-> calls.max.res[1].socialSecurity,
             socialSecurityMin |-> calls.ssForMin.res[1].socialSecurity,
             totalNetMin |->
                DAdd(DSub(DSub(Euros(amounts.grossSalary + amounts.monthlyValueToBenefits),
                               calls.max.res[1].irsWithheld),
                          calls.ssForMin.res[1].socialSecurity),
                     MonthlyMealAllowance(input)),
             totalNetMax |->
                DAdd(DAdd(calls.max.res[1].netSalary, MonthlyMealAllowance(input)),
                     Euros(amounts.monthlyValueToBenefits))])]

\* The proposal calculateOutputs returns from its amounts and the outcomes of
\* its three engine calls; the first call that fails throws
Proposal(input, annualCost, pct, amounts, calls) ==
    IF calls.max.err # "" THEN Failure(calls.max.err)
    ELSE IF calls.minIRS.err # "" THEN Failure(calls.minIRS.err)
    ELSE IF calls.ssForMin.err # "" THEN Failure(calls.ssForMin.err)
    ELSE [err |-> "",
          res |-> Some(
            [flexBenefitsPercentage |-> pct,
             annualCost |-> annualCost,
             monthlyBaseSalary |-> Euros(amounts.monthlyBaseSalary),
             monthlyIHT |-> Euros(amounts.monthlyIHT),
             monthlyBenefits |-> Euros(amounts.monthlyValueToBenefits),
             monthlyMealAllowance |-> MonthlyMealAllowance(input),
             irs |-> calls.max.res[1].irsWithheld,
             socialSecurityMax |-> calls.max.res[1].socialSecurity,
             socialSecurityMin |-> calls.ssForMin.res[1].socialSecurity,
             totalNetMin |->
                DAdd(DSub(DSub(Euros(amounts.grossSalary + amounts.monthlyValueToBenefits),
                               calls.minIRS.res[1].irsWithheld),
                          calls.ssForMin.res[1].socialSecurity),
                     MonthlyMealAllowance(input)),
             totalNetMax |->
                DAdd(DAdd(calls.max.res[1].netSalary, MonthlyMealAllowance(input)),
                     Euros(amounts.monthlyValueToBenefits))])]

\* calculateOutputs with ssForMin taken on the gross salary with the benefits
OutputsSsOnBenefits(dataOpt, input, annualCost, pct, amounts) ==
    Proposal(input, annualCost, pct, amounts,
             [max |-> EngineCall(dataOpt, input, amounts.grossSalary, input.ssRate),
              minIRS |-> EngineCall(dataOpt, input,
                                    amounts.grossSalary + amounts.monthlyValueToBenefits,
                                    Zero),
              ssForMin |-> EngineCall(dataOpt, input,
                                      amounts.grossSalary + amounts.monthlyValueToBenefits,
                                      input.ssRate)])

\* The three engine calls: calculationMax, calculationMinIRS and the call
\* whose socialSecurity is ssForMin
OutputsOfSalary(dataOpt, input, annualCost, pct, amounts) ==
    Proposal(input, annualCost, pct, amounts,
             [max |-> EngineCall(dataOpt, input, amounts.grossSalary, input.ssRate),
              minIRS |-> EngineCall(dataOpt, input,
                                    amounts.grossSalary + amounts.monthlyValueToBenefits,
                                    Zero),
              ssForMin |-> EngineCall(dataOpt, input, amounts.grossSalary, input.ssRate)])

\* monthlyBaseSalary = monthlyValueWithoutBenefits - monthlyIHT and
\* grossSalary = monthlyBaseSalary + monthlyIHT
SalaryOf(monthlyValueToBenefits, monthlyValueWithoutBenefits, monthlyIHT) ==
    [monthlyValueToBenefits |-> monthlyValueToBenefits,
     monthlyIHT |-> monthlyIHT,
     monthlyBaseSalary |-> monthlyValueWithoutBenefits - monthlyIHT,
     grossSalary |-> (monthlyValueWithoutBenefits - monthlyIHT) + monthlyIHT]

OutputsOfAmounts(dataOpt, input, annualCost, pct, benefits, withoutBenefits) ==
    OutputsOfSalary(dataOpt, input, annualCost, pct,
                    SalaryOf(benefits, withoutBenefits,
                             MonthlyIHT(input, withoutBenefits)))

\* calculateOutputs(input, annualCost, flexPct) with flexPct = pct / 100, on
\* the engine whose data field is dataOpt: [err, res]
calculateOutputs(dataOpt, input, annualCost, pct) ==
    OutputsOfAmounts(dataOpt, input, annualCost, pct,
                     MonthlyValueToBenefits(input, annualCost, pct),
                     MonthlyValueWithoutBenefits(input, annualCost, pct))

\* The search range and budget of solveForAnnualCost
SearchHigh == 1000000
Iterations == 50

\* The percentages getProposals loops over
FirstPct == 0
LastPct == 30
PctStep == 5

\* result.totalNetMax < input.targetNetSalary: the search raises low
RaisesLowReversed(result, input) == DLeq(input.targetNetSalary, result.totalNetMax)

\* result.totalNetMax <= input.targetNetSalary
RaisesLowOrEqual(result, input) == DLeq(result.totalNetMax, input.targetNetSalary)

RaisesLow(result, input) == DLt(result.totalNetMax, input.targetNetSalary)

(* Datasets and inputs of the solver *)

\* One table whose withheld tax is the same on both sides of each boundary:
\* the first two bands of the test dataset, and an open band that continues
\* the second (0.125 * 1042 - 0.325 * (1273.85 - 1042) = 0.2 * 1042 - 153.50)
ContinuousDataset ==
    [tables |-> << Table("I",
        << UpToBand(Int2Dec(920), Zero, Literal(Zero), None),
           UpToBand(Int2Dec(1042), Dec(125, 3), Formula(MockExpression), None),
           OverBand(Int2Dec(1042), Dec(2, 1), Literal(Dec(1535, 1)), None) >>) >>]

\* One table whose withheld tax halves above its boundary: the net salary
\* rises by 100 from a gross salary of 1000 to the next
JumpDataset ==
    [tables |-> << Table("I",
        << UpToBand(Int2Dec(1000), Dec(2, 1), Literal(Zero), None),
           OverBand(Int2Dec(1000), Dec(1, 1), Literal(Zero), None) >>) >>]

\* One table whose open band takes nine tenths of the gross salary: with the
\* contribution of 11 % the net salary falls below zero above 45000
SteepDataset ==
    [tables |-> << Table("I",
        << UpToBand(Int2Dec(45000), Dec(1, 1), Literal(Zero), None),
           OverBand(Int2Dec(45000), Dec(9, 1), Literal(Zero), None) >>) >>]

SolverDatasets ==
    {MockDataset(MockTableIBands), ContinuousDataset, JumpDataset, SteepDataset}

\* The values of the tests: 22 days, 11 months, IHT 25 %, TSU 23.75 %
FormInput(target, duo, daily, ss) ==
    ReverseInput(target, "continente", "single", 0, duo, daily, Int2Dec(22),
                 Int2Dec(11), Int2Dec(25), Dec(2375, 2), ss)

\* The input of the tests with another location and with a dependent
OtherInput(loc, deps) ==
    ReverseInput(Int2Dec(1500), loc, "single", deps, FALSE, Int2Dec(10), Int2Dec(22),
                 Int2Dec(11), Int2Dec(25), Dec(2375, 2), Dec(11, 2))

SolverInputs ==
    {FormInput(Int2Dec(t), FALSE, Int2Dec(10), Dec(11, 2)) :
        t \in {100, 220, 298, 300, 1010, 1500, 30000, 100000}}
    \cup {FormInput(Int2Dec(1500), TRUE, Zero, Dec(11, 2)),
          FormInput(Int2Dec(1120), FALSE, Int2Dec(10), Zero),
          OtherInput("madeira", 0), OtherInput("continente", 1)}

(* The solver: getProposals, one step per iteration of the search *)

\* getProposals(input) is called: the first solveForAnnualCost starts
GetProposalsStart(input) ==
    /\ pc \in {"idle", "done", "failed"}
    /\ rin' = Some(input)
    /\ dataAtCall' = data
    /\ proposals' = << >>
    /\ loopPct' = FirstPct
    /\ low' = DyInt(0)
    /\ high' = DyInt(SearchHigh)
    /\ iter' = 0
    /\ bestResult' = None
    /\ rerr' = ""
    /\ pc' = "loop"
    /\ UNCHANGED <<data, lastInput, out, supplied, earlier>>
    /\ UNCHANGED resolveVars
    /\ UNCHANGED componentVars

\* The loop body inside try/catch in getProposals: an error of the engine
\* ends the search of the percentage and the sweep goes on
SolveIterationSkipping ==
    /\ pc = "loop"
    /\ iter < Iterations
    /\ \E mid \in {Midpoint(low, high)} :
       \E result \in {calculateOutputs(data, rin[1], mid, loopPct)} :
           IF result.err # ""
           THEN /\ rerr' = result.err
                /\ bestResult' = None
                /\ low' = DyInt(0)
                /\ high' = DyInt(SearchHigh)
                /\ iter' = 0
                /\ IF loopPct + PctStep <= LastPct
                   THEN loopPct' = loopPct + PctStep /\ UNCHANGED pc
                   ELSE pc' = "done" /\ UNCHANGED loopPct
           ELSE /\ low' = IF RaisesLow(result.res[1], rin[1]) THEN mid ELSE low
                /\ high' = IF RaisesLow(result.res[1], rin[1]) THEN high ELSE mid
                /\ bestResult' = result.res
                /\ iter' = iter + 1
                /\ UNCHANGED <<pc, rerr, loopPct>>
    /\ UNCHANGED <<rin, proposals>>
    /\ UNCHANGED engineVars
    /\ UNCHANGED resolveVars
    /\ UNCHANGED componentVars

\* One iteration of the loop of solveForAnnualCost; an error of the engine
\* leaves getProposals
SolveIteration ==
    /\ pc = "loop"
    /\ iter < Iterations
    /\ \E mid \in {Midpoint(low, high)} :
       \E result \in {calculateOutputs(data, rin[1], mid, loopPct)} :
           IF result.err # ""
           THEN /\ pc' = "failed"
                /\ rerr' = result.err
                /\ UNCHANGED <<low, high, iter, bestResult>>
           ELSE /\ low' = IF RaisesLow(result.res[1], rin[1]) THEN mid ELSE low
                /\ high' = IF RaisesLow(result.res[1], rin[1]) THEN high ELSE mid
                /\ bestResult' = result.res
                /\ iter' = iter + 1
                /\ UNCHANGED <<pc, rerr>>
    /\ UNCHANGED <<rin, loopPct, proposals>>
    /\ UNCHANGED engineVars
    /\ UNCHANGED resolveVars
    /\ UNCHANGED componentVars

\* return bestResult!; the proposal is pushed and the next percentage starts,
\* or getProposals returns
SolveReturn ==
    /\ pc = "loop"
    /\ iter = Iterations
    /\ proposals' = Append(proposals, bestResult[1])
    /\ IF loopPct + PctStep <= LastPct
       THEN /\ loopPct' = loopPct + PctStep
            /\ low' = DyInt(0)
            /\ high' = DyInt(SearchHigh)
            /\ iter' = 0
            /\ bestResult' = None
            /\ UNCHANGED pc
       ELSE /\ pc' = "done"
            /\ UNCHANGED <<loopPct, low, high, iter, bestResult>>
    /\ UNCHANGED <<rin, rerr>>
    /\ UNCHANGED engineVars
    /\ UNCHANGED resolveVars
    /\ UNCHANGED componentVars

\* setDataset between two calls of getProposals (a call runs to completion)
SetSolverDataset(dataset) ==
    /\ pc # "loop"
    /\ SetDataset(dataset)

NextSolver ==
    \/ \E dataset \in SolverDatasets : SetSolverDataset(dataset)
    \/ \E input \in SolverInputs : GetProposalsStart(input)
    \/ SolveIteration
    \/ SolveReturn

SpecSolver == Init /\ [][NextSolver]_vars

----------------------------------------------------------------------------
(* Both services in one application: calculate called directly, before and *)
(* after setDataset and getProposals, the caller keeping some results      *)

\* The test dataset with Table I stored open band first, and a second dataset
DescendingBands == << MockTableIBands[3], MockTableIBands[2], MockTableIBands[1] >>
CallDatasets == {MockDataset(DescendingBands), ContinuousDataset}

CallInputs ==
    {IrsInput(Num(Int2Dec(g)), "single", "continente", Num(Zero), None, None) :
        g \in {0, 1000, 1500}}

\* A target just above the monthly meal allowance plus the net of the lowest
\* salary the search visits: the search for 0 % returns, the one for 5 % fails
ProposalInputs == {FormInput(Dec(2965, 1), FALSE, Int2Dec(10), Dec(11, 2))}

\* The kept call, marked when the call (data, inp) repeats it
Repeated(kept, dataOpt, inp) ==
    IF Has(kept) /\ kept[1].input = inp /\ kept[1].data = dataOpt
    THEN Some([kept[1] EXCEPT !.repeatedAt = pc])
    ELSE kept

\* The dataset after bands.sort(...) without the copy, on the selected table
SortedInPlace(dataOpt, inp) ==
    IF ~Has(dataOpt) \/ ValidateInput(inp) # "" THEN dataOpt
    ELSE Some([tables |->
                [i \in 1..Len(dataOpt[1].tables) |->
                    IF dataOpt[1].tables[i].id
                         = pickTableId(inp.maritalStatus, inp.dependents.v,
                                       OrElse(inp.hasDisability, FALSE))
                    THEN Table(dataOpt[1].tables[i].id,
                               SortBands(dataOpt[1].tables[i].bands))
                    ELSE dataOpt[1].tables[i]]])

\* calculate(inp) with pickBand sorting table.bands itself
CalculateSortingInPlace(inp) ==
    /\ pc # "loop"
    /\ lastInput' = Some(inp)
    /\ dataAtCall' = data
    /\ out' = Calculate(data, inp)
    /\ earlier' = Repeated(earlier, data, inp)
    /\ data' = SortedInPlace(data, inp)
    /\ UNCHANGED supplied
    /\ UNCHANGED resolveVars
    /\ UNCHANGED solverVars
    /\ UNCHANGED componentVars

\* calculate(inp), called while no getProposals is running
CalculateBetween(inp) ==
    /\ pc # "loop"
    /\ lastInput' = Some(inp)
    /\ dataAtCall' = data
    /\ out' = Calculate(data, inp)
    /\ earlier' = Repeated(earlier, data, inp)
    /\ UNCHANGED <<data, supplied>>
    /\ UNCHANGED resolveVars
    /\ UNCHANGED solverVars
    /\ UNCHANGED componentVars

\* calculate(inp), and the caller keeps the input and the result returned
CalculateAndKeep(inp) ==
    /\ pc # "loop"
    /\ lastInput' = Some(inp)
    /\ dataAtCall' = data
    /\ out' = Calculate(data, inp)
    /\ earlier' = Some([input |-> inp, data |-> data, out |-> Calculate(data, inp),
                        at |-> pc, repeatedAt |-> ""])
    /\ UNCHANGED <<data, supplied>>
    /\ UNCHANGED resolveVars
    /\ UNCHANGED solverVars
    /\ UNCHANGED componentVars

NextCalls ==
    \/ \E dataset \in CallDatasets : SetSolverDataset(dataset)
    \/ \E inp \in CallInputs : CalculateBetween(inp)
    \/ \E inp \in CallInputs : CalculateAndKeep(inp)
    \/ \E input \in ProposalInputs : GetProposalsStart(input)
    \/ SolveIteration
    \/ SolveReturn

SpecCalls == Init /\ [][NextCalls]_vars

----------------------------------------------------------------------------
(* SimulatorComponent: the calculations of the timeout callback of         *)
(* calculate().  Amounts derived from the budget are carried in            *)
(* thousandths of a euro, floored; toFixed(2) rounds to the nearest cent,  *)
(* a half upwards.  A field may so differ by a cent from the doubles'.     *)

\* The constants of the component
subsRefeicaoDaily == Dec(1022, 2)
subsRefeicaoDays == 22
subsRefeicaoMonths == 11
tsu == Dec(2375, 2)
segSocialRegimeGeral == 11
maxFlexBenefitsPercentage == 30
flexBenefitsStep == 5

\* getMappedMaritalStatus with every married form holding one income
MappedOneHolderAlways(f) ==
    IF f.maritalStatus = "married" THEN "married_one_holder" ELSE "single"

getMappedMaritalStatus(f) ==
    IF f.maritalStatus = "married"
    THEN (IF f.dependents = 1 THEN "married_one_holder" ELSE "married_two_holders")
    ELSE "single"

\* Number(this.dependents) || 0, for a dependents field that holds a number
NumberOrZero(n) == IF n = 0 THEN 0 ELSE n

\* The maritalStatus, location and dependents every engine call of the
\* component carries
CallFields(f) ==
    [maritalStatus |-> getMappedMaritalStatus(f), location |-> f.location,
     dependents |-> NumberOrZero(f.dependents)]

\* What the engine was called with: the maritalStatus and dependents of a call
CallOf(fields) == [maritalStatus |-> fields.maritalStatus, dependents |-> fields.dependents]

getMonthsMultiplier(f) == IF f.hasDuodecimos THEN 12 ELSE 14

calculateMonthlyMealAllowance == DMul(subsRefeicaoDaily, Int2Dec(subsRefeicaoDays))

calculateAnnualMealAllowance ==
    DMul(DMul(subsRefeicaoDaily, Int2Dec(subsRefeicaoDays)), Int2Dec(subsRefeicaoMonths))

\* Math.ceil(value * 100) / 100 of an amount in thousandths
roundToCents(t) == Dec((t + 9) \div 10, 2)

\* Number(x.toFixed(2)) of a decimal
ToFixed2(d) == IF d.m >= 0 THEN round2(d) ELSE DSub(Zero, round2(DSub(Zero, d)))

\* Number((n / d).toFixed(2)) of the quotient of two positive integers, in cents
CentsOfQuotient(n, d) ==
    Dec(MulDiv(n, 100, d) + (IF 2 * (((n % d) * 100) % d) >= d THEN 1 ELSE 0), 2)

\* calculateAnnualCostToCompany(grossSalary, valueToBenefits), in thousandths
calculateAnnualCostToCompany(f, grossSalary, valueToBenefits) ==
    MulDiv(grossSalary * getMonthsMultiplier(f), 10000 + DScale(tsu, 2), 10000)
        + valueToBenefits * 12 + Thousandths(calculateAnnualMealAllowance)

\* (monthlyGross * IhtPercentage) / (100 + IhtPercentage)
calculateIHT(f, monthlyGross) == MulDiv(monthlyGross, f.IhtPercentage, 100 + f.IhtPercentage)

(* calculateByAnnualCost *)

\* budget / factor with factor = (1 - p)(1 + tsu / 100) + p, p = percentage / 100;
\* numerator and denominator of the factor are divided by 25
Distributable(f, percentage) ==
    MulDiv(Thousandths(f.annualCost) - Thousandths(calculateAnnualMealAllowance),
           1000000 \div 25,
           ((100 - percentage) * (10000 + DScale(tsu, 2)) + percentage * 10000) \div 25)

AnnualValueToBenefits(f, percentage) == MulDiv(Distributable(f, percentage), percentage, 100)

MonthlyBenefitsOf(f, percentage) == AnnualValueToBenefits(f, percentage) \div 12

MonthlyGrossOf(f, percentage) ==
    (Distributable(f, percentage) - AnnualValueToBenefits(f, percentage))
        \div getMonthsMultiplier(f)

\* The ProposalData pushed for a percentage, from the outcomes of the three
\* engine calls
AnnualCostProposal(f, percentage, monthlyGross, monthlyValueToBenefits, calls) ==
    [flexBenefitsPercentage |-> percentage,
     monthlyBaseSalary |-> roundToCents(monthlyGross - calculateIHT(f, monthlyGross)),
     monthlyIHT |-> roundToCents(calculateIHT(f, monthlyGross)),
     monthlyBenefits |-> roundToCents(monthlyValueToBenefits),
     monthlyMealAllowance |-> calculateMonthlyMealAllowance,
     irs |-> roundToCents(Thousandths(calls.max.res[1].irsWithheld)),
     socialSecurityMax |-> roundToCents(Thousandths(calls.max.res[1].socialSecurity)),
     socialSecurityMin |-> roundToCents(Thousandths(calls.ssForMin.res[1].socialSecurity)),
     totalNetMax |->
        roundToCents(Thousandths(DAdd(calls.max.res[1].netSalary,
                                      calculateMonthlyMealAllowance))
                     + monthlyValueToBenefits),
     totalNetMin |->
        roundToCents(monthlyGross + monthlyValueToBenefits
                     - Thousandths(calls.min.res[1].irsWithheld)
                     - Thousandths(calls.ssForMin.res[1].socialSecurity)
                     + Thousandths(calculateMonthlyMealAllowance)),
     annualCost |->
        roundToCents(calculateAnnualCostToCompany(f, monthlyGross, monthlyValueToBenefits))]

\* One turn of the loop: the first engine call that throws ends the callback
ProposalOfCalls(f, percentage, monthlyGross, monthlyValueToBenefits, calls) ==
    IF calls.max.err # "" THEN Failure(calls.max.err)
    ELSE IF calls.min.err # "" THEN Failure(calls.min.err)
    ELSE IF calls.ssForMin.err # "" THEN Failure(calls.ssForMin.err)
    ELSE [err |-> "",
          res |-> Some(AnnualCostProposal(f, percentage, monthlyGross,
                                          monthlyValueToBenefits, calls))]

ProposalOfGross(dataOpt, f, percentage, monthlyGross, monthlyValueToBenefits) ==
    ProposalOfCalls(f, percentage, monthlyGross, monthlyValueToBenefits,
        [max |-> EngineCall(dataOpt, CallFields(f), monthlyGross,
                            Dec(segSocialRegimeGeral, 2)),
         min |-> EngineCall(dataOpt, CallFields(f), monthlyGross + monthlyValueToBenefits,
                            Zero),
         ssForMin |-> EngineCall(dataOpt, CallFields(f), monthlyGross,
                                 Dec(segSocialRegimeGeral, 2))])

ProposalOfPercentage(dataOpt, f, percentage) ==
    ProposalOfGross(dataOpt, f, percentage, MonthlyGrossOf(f, percentage),
                    MonthlyBenefitsOf(f, percentage))

\* A list of proposals with one more, or the error that ended the loop
Pushed(sofar, one) ==
    IF sofar.err # "" THEN sofar
    ELSE IF one.err # "" THEN [err |-> one.err, res |-> sofar.res]
    ELSE [err |-> "", res |-> Append(sofar.res, one.res[1])]

\* The proposals of the percentages 0, flexBenefitsStep, ... up to percentage:
\* [err, res], res the proposals pushed before an error
RECURSIVE calculateByAnnualCost(_, _, _)
calculateByAnnualCost(dataOpt, f, percentage) ==
    IF percentage < 0 THEN [err |-> "", res |-> << >>]
    ELSE CHOOSE pushed \in
            {Pushed(sofar, ProposalOfPercentage(dataOpt, f, percentage)) :
                sofar \in {calculateByAnnualCost(dataOpt, f, percentage - flexBenefitsStep)}} :
            TRUE

(* calculateByNetSalaryTarget: getProposals and solveForAnnualCost as functions *)

SearchStart == [low |-> DyInt(0), high |-> DyInt(SearchHigh), best |-> NoOutcome]

SearchAfterResult(input, s, mid, result) ==
    IF result.err # "" THEN [low |-> s.low, high |-> s.high, best |-> result]
    ELSE [low |-> IF RaisesLow(result.res[1], input) THEN mid ELSE s.low,
          high |-> IF RaisesLow(result.res[1], input) THEN s.high ELSE mid,
          best |-> result]

SearchAfterMid(dataOpt, input, pct, s, mid) ==
    CHOOSE next \in {SearchAfterResult(input, s, mid, result) :
                        result \in {calculateOutputs(dataOpt, input, mid, pct)}} : TRUE

\* One iteration of the loop of solveForAnnualCost; after an error nothing more
SearchIteration(dataOpt, input, pct, s) ==
    IF s.best.err # "" THEN s
    ELSE CHOOSE next \in {SearchAfterMid(dataOpt, input, pct, s, mid) :
                             mid \in {Midpoint(s.low, s.high)}} : TRUE

\* n iterations of the loop from the state s: the first half of them, then
\* the others
RECURSIVE SearchFrom(_, _, _, _, _)
SearchFrom(dataOpt, input, pct, s, n) ==
    IF n = 0 THEN s
    ELSE IF n = 1 THEN SearchIteration(dataOpt, input, pct, s)
    ELSE CHOOSE last \in {SearchFrom(dataOpt, input, pct, half, n - n \div 2) :
                             half \in {SearchFrom(dataOpt, input, pct, s, n \div 2)}} : TRUE

\* solveForAnnualCost(input, flexPct): [err, res]
solveForAnnualCost(dataOpt, input, pct) ==
    SearchFrom(dataOpt, input, pct, SearchStart, Iterations).best

\* getProposals(input): [err, res]
RECURSIVE getProposals(_, _, _)
getProposals(dataOpt, input, pct) ==
    IF pct < FirstPct THEN [err |-> "", res |-> << >>]
    ELSE CHOOSE pushed \in
            {IF sofar.err # "" THEN sofar
             ELSE Pushed(sofar, solveForAnnualCost(dataOpt, input, pct)) :
                sofar \in {getProposals(dataOpt, input, pct - PctStep)}} : TRUE

\* The argument of this.reverseService.getProposals
ReverseInputOf(f) ==
    ReverseInput(Int2Dec(f.targetNetSalary), f.location, getMappedMaritalStatus(f),
                 NumberOrZero(f.dependents), f.hasDuodecimos, subsRefeicaoDaily,
                 Int2Dec(subsRefeicaoDays), Int2Dec(subsRefeicaoMonths),
                 Int2Dec(f.IhtPercentage), tsu, Dec(segSocialRegimeGeral, 2))

\* recalculateAnnualCost(proposal): the proposal with the annual cost of its
\* monthly gross salary and benefits
recalculateAnnualCost(f, proposal) ==
    [proposal EXCEPT !.annualCost =
        Euros(calculateAnnualCostToCompany(
                  f,
                  Thousandths(DAdd(proposal.monthlyBaseSalary, proposal.monthlyIHT)),
                  Thousandths(proposal.monthlyBenefits)))]

calculateByNetSalaryTarget(dataOpt, f) ==
    CHOOSE mapped \in
        {[err |-> found.err,
          res |-> [k \in 1..Len(found.res) |-> recalculateAnnualCost(f, found.res[k])]] :
            found \in {getProposals(dataOpt, ReverseInputOf(f), LastPct)}} : TRUE

(* mapToSimulationResult *)

\* baseSalary14 + iht14 = (monthlyBaseSalary + monthlyIHT) * 12 / 14, in thousandths
GrossOn14Months(proposal) ==
    MulDiv(Thousandths(DAdd(proposal.monthlyBaseSalary, proposal.monthlyIHT)), 12, 14)

\* calculationBase: the engine on the 14-month gross salary
calculationBase(dataOpt, f, proposal) ==
    EngineCall(dataOpt, CallFields(f), GrossOn14Months(proposal),
               Dec(segSocialRegimeGeral, 2))

\* Number((irsRemanescente / 2).toFixed(2)) with
\* irsRemanescente = Math.max(0, totalIrs - irsBase)
HalfOfRemainingIrs(totalIrs, irsBase) ==
    CentsOfQuotient(DScale(DMax(Zero, DSub(totalIrs, irsBase)), 2), 2 * 100)

\* The SimulationResult of a proposal, from the displayed base salary and IHT,
\* the two duodecimos and the base and remaining IRS
SimulationResult(proposal, baseSalary, iht, duodecimo, irsBase, irsHalf) ==
    [flexBenefitsPercentage |-> proposal.flexBenefitsPercentage,
     salaryBase |-> baseSalary,
     IHT |-> iht,
     duodecimoSF |-> duodecimo,
     duodecimoSN |-> duodecimo,
     irsSF |-> irsHalf,
     irsSN |-> irsHalf,
     irs |-> irsBase,
     netSalary |->
        ToFixed2(DSub(DSub(DAdd(proposal.monthlyBaseSalary, proposal.monthlyIHT),
                           ToFixed2(proposal.irs)),
                      ToFixed2(proposal.socialSecurityMax))),
     monthlyMealAllowance |-> proposal.monthlyMealAllowance,
     monthlyValueToBenefits |-> ToFixed2(proposal.monthlyBenefits),
     totalMax |-> ToFixed2(proposal.totalNetMax),
     totalMin |-> ToFixed2(proposal.totalNetMin),
     salaryBaseAndIHT |-> DAdd(baseSalary, iht),
     rendimento |-> DAdd(DAdd(baseSalary, iht), ToFixed2(proposal.monthlyBenefits)),
     custoAnualParaEmpresa |-> ToFixed2(proposal.annualCost)]

\* The branch of this.hasDuodecimos with irsBase left at the proposal's IRS
ResultKeepingTotalIrs(proposal, base) ==
    IF base.err # "" THEN Failure(base.err)
    ELSE [err |-> "",
          res |-> Some(SimulationResult(
                proposal,
                CentsOfQuotient(Thousandths(proposal.monthlyBaseSalary) * 12, 14 * 1000),
                CentsOfQuotient(Thousandths(proposal.monthlyIHT) * 12, 14 * 1000),
                CentsOfQuotient(Thousandths(proposal.monthlyBaseSalary) * 12,
                                14 * 1000 * 12),
                ToFixed2(proposal.irs),
                HalfOfRemainingIrs(ToFixed2(proposal.irs),
                                   ToFixed2(base.res[1].irsWithheld))))]

\* The branch of this.hasDuodecimos: the values on 14 months, the duodecimos
\* baseSalary14 / 12 and the IRS of the base (the engine call may throw)
ResultWithDuodecimos(proposal, base) ==
    IF base.err # "" THEN Failure(base.err)
    ELSE [err |-> "",
          res |-> Some(SimulationResult(
                proposal,
                CentsOfQuotient(Thousandths(proposal.monthlyBaseSalary) * 12, 14 * 1000),
                CentsOfQuotient(Thousandths(proposal.monthlyIHT) * 12, 14 * 1000),
                CentsOfQuotient(Thousandths(proposal.monthlyBaseSalary) * 12,
                                14 * 1000 * 12),
                ToFixed2(base.res[1].irsWithheld),
                HalfOfRemainingIrs(ToFixed2(proposal.irs),
                                   ToFixed2(base.res[1].irsWithheld))))]

\* mapToSimulationResult(proposal): [err, res]
mapToSimulationResult(dataOpt, f, proposal) ==
    IF f.hasDuodecimos
    THEN ResultWithDuodecimos(proposal, calculationBase(dataOpt, f, proposal))
    ELSE [err |-> "",
          res |-> Some(SimulationResult(proposal, ToFixed2(proposal.monthlyBaseSalary),
                                        ToFixed2(proposal.monthlyIHT), Zero,
                                        ToFixed2(proposal.irs), Zero))]

\* proposals.map(mapToSimulationResult) up to proposal k: [err, res]
RECURSIVE MappedUpTo(_, _, _, _)
MappedUpTo(dataOpt, f, list, k) ==
    IF k = 0 THEN [err |-> "", res |-> << >>]
    ELSE CHOOSE pushed \in
            {IF sofar.err # "" THEN sofar
             ELSE Pushed(sofar, mapToSimulationResult(dataOpt, f, list[k])) :
                sofar \in {MappedUpTo(dataOpt, f, list, k - 1)}} : TRUE

(* The callback of setTimeout in calculate() *)

\* The proposals of the mode chosen in the form
ProposalsOfMode(dataOpt, f) ==
    IF f.calculateBy = "annualCost"
    THEN calculateByAnnualCost(dataOpt, f, maxFlexBenefitsPercentage)
    ELSE calculateByNetSalaryTarget(dataOpt, f)

\* What the callback computes from the form: the error it throws ("" if none),
\* the ProposalData it had, the SimulationResults it assigned and what the
\* engine was called with
RunOfProposals(f, found, mapped) ==
    [err |-> IF found.err # "" THEN found.err ELSE mapped.err,
     proposals |-> found.res,
     simulations |-> mapped.res,
     calls |-> {CallOf(IF f.calculateBy = "annualCost" THEN CallFields(f)
                       ELSE ReverseInputOf(f))}
               \cup (IF f.hasDuodecimos /\ found.err = "" /\ found.res # << >>
                     THEN {CallOf(CallFields(f))} ELSE {})]

RunAfterProposals(dataOpt, f, found) ==
    CHOOSE run \in
        {RunOfProposals(f, found, mapped) :
            mapped \in {IF found.err # "" THEN [err |-> "", res |-> << >>]
                        ELSE MappedUpTo(dataOpt, f, found.res, Len(found.res))}} : TRUE

TimeoutCallback(dataOpt, f) ==
    CHOOSE run \in {RunAfterProposals(dataOpt, f, found) :
                       found \in {ProposalsOfMode(dataOpt, f)}} : TRUE

(* The component and the timers of its window *)

\* The dataset the constructor supplies (irs_2026_continente.json is not among
\* the sources): the bands of the test dataset's Table I for Tables I to III,
\* with the deduction per dependent in every taxed band of Tables II and III
DependentsBands ==
    << UpToBand(Int2Dec(920), Zero, Literal(Zero), None),
       UpToBand(Int2Dec(1042), Dec(125, 3), Formula(MockExpression), Some(Dec(2143, 2))),
       OverBand(Int2Dec(1042), Dec(2, 1), Literal(Int2Dec(100)), Some(Dec(2143, 2))) >>

SimulatorDataset ==
    [tables |-> << Table("I", MockTableIBands), Table("II", DependentsBands),
                   Table("III", DependentsBands) >>]

\* The forms: the initial values of the fields with either mode, marital
\* status and duodecimos and 0 to MaxDependents dependents, the same in
\* Madeira for a single person without dependents, and annual costs next to
\* the annual meal allowance (2473.24): one below it, and two that leave a
\* base salary of 0.06 and of 0.07 with no flexible benefits
FormsOfCost(cost) ==
    {[InitialForm EXCEPT !.calculateBy = by, !.maritalStatus = ms, !.location = loc,
                         !.dependents = deps, !.hasDuodecimos = duo,
                         !.annualCost = cost] :
        by \in {"annualCost", "targetNetSalary"}, ms \in {"single", "married"},
        loc \in {"continente", "madeira"}, deps \in 0..MaxDependents,
        duo \in BOOLEAN}

ComponentForms ==
    {f \in FormsOfCost(InitialForm.annualCost) :
        f.location = "continente" \/ (f.maritalStatus = "single" /\ f.dependents = 0)}
        \cup {f \in FormsOfCost(Dec(247424, 2)) \cup FormsOfCost(Dec(247445, 2))
                        \cup FormsOfCost(Int2Dec(2000)) :
                /\ f.calculateBy = "annualCost" /\ f.maritalStatus = "single"
                /\ f.location = "continente" /\ f.dependents = 0}

\* The callback's computation for each form of the model
CallbackRuns ==
    {[form |-> f, run |-> TimeoutCallback(Some(SimulatorDataset), f)] : f \in ComponentForms}

CallbackOfForm(f) == (CHOOSE r \in CallbackRuns : r.form = f).run

IntervalMs == 200
TimeoutMs == 1000
MaxTimers == 4

\* Time passes in half periods of the interval
TimeStep == IntervalMs \div 2

\* A timer id the window has not handed out: the browser never repeats an id;
\* the model takes the smallest id that no live timer has or refers to
FreshId(ids) == CHOOSE id \in 1..(Cardinality(ids) + 1) : id \notin ids
IdsOf(ts) == {t.id : t \in ts} \cup {t.interval : t \in ts}

\* window.setInterval(callback, 200) with the callback's phraseIndex, and
\* setTimeout(callback, 1000) of the same calculate()
IntervalTimer(id) == [id |-> id, repeats |-> TRUE, due |-> IntervalMs, phraseIndex |-> 0,
                      interval |-> id]
TimeoutTimer(id, intervalId) ==
    [id |-> id, repeats |-> FALSE, due |-> TimeoutMs, phraseIndex |-> 0,
     interval |-> intervalId]

\* clearLoadingTimer(): window.clearTimeout(this.loadingTimer) on the timers ts
Cleared(ts) == IF Has(loadingTimer) THEN {t \in ts : t.id # loadingTimer[1]} ELSE ts

InitComponent ==
    /\ data = Some(SimulatorDataset)
    /\ supplied = Some(SimulatorDataset)
    /\ lastInput = None /\ dataAtCall = None /\ out = NoOutcome /\ earlier = None
    /\ ResolveIdle
    /\ SolverIdle
    /\ form \in ComponentForms
    /\ isLoading = FALSE
    /\ displayedLoadingPhrases = << >>
    /\ liquidSalarySimulations = << >>
    /\ loadingTimer = None
    /\ pickedHasDuodecimos = FALSE
    /\ pickedIHTPercentage = 0
    /\ annualDailyMealAllowance = Zero
    /\ monthlyMealAllowance = Zero
    /\ timers = {}
    /\ destroyed = FALSE
    /\ lastRun = None

\* calculate(): the results are reset, the first phrase is shown, the
\* interval and the timeout are started
ComponentCalculate ==
    /\ ~ destroyed
    /\ Cardinality(timers) + 2 <= MaxTimers
    /\ pickedHasDuodecimos' = form.hasDuodecimos
    /\ liquidSalarySimulations' = << >>
    /\ isLoading' = TRUE
    /\ displayedLoadingPhrases' = << loadingPhrases[1] >>
    /\ \E id \in {FreshId(IdsOf(timers))} :
           /\ loadingTimer' = Some(id)
           /\ timers' = timers \cup {IntervalTimer(id),
                                      TimeoutTimer(FreshId(IdsOf(timers) \cup {id}), id)}
    /\ UNCHANGED <<form, pickedIHTPercentage, annualDailyMealAllowance,
                   monthlyMealAllowance, destroyed, lastRun>>
    /\ UNCHANGED engineVars
    /\ UNCHANGED resolveVars
    /\ UNCHANGED solverVars

\* The callback of the interval: phraseIndex++ and the next phrase, if any, is
\* pushed.  A phraseIndex beyond the phrases is kept at their number.
IntervalTick(t) ==
    /\ t \in timers /\ t.repeats /\ t.due = 0
    /\ displayedLoadingPhrases' =
          IF t.phraseIndex + 1 < Len(loadingPhrases)
          THEN Append(displayedLoadingPhrases, loadingPhrases[t.phraseIndex + 2])
          ELSE displayedLoadingPhrases
    /\ timers' = (timers \ {t})
                    \cup {[t EXCEPT !.due = IntervalMs,
                                    !.phraseIndex = IF t.phraseIndex + 1 < Len(loadingPhrases)
                                                    THEN t.phraseIndex + 1
                                                    ELSE Len(loadingPhrases)]}
    /\ UNCHANGED <<form, isLoading, liquidSalarySimulations, loadingTimer,
                   pickedHasDuodecimos, pickedIHTPercentage, annualDailyMealAllowance,
                   monthlyMealAllowance, destroyed, lastRun>>
    /\ UNCHANGED engineVars
    /\ UNCHANGED resolveVars
    /\ UNCHANGED solverVars

\* The callback of the timeout: the loading timer is cleared, the proposals
\* are computed and mapped, and isLoading is reset; an error of the engine or
\* of the reverse service leaves the callback before the results are assigned
TimeoutFires(t) ==
    /\ t \in timers /\ ~ t.repeats /\ t.due = 0
    /\ timers' = Cleared(timers \ {t})
    /\ loadingTimer' = None
    /\ pickedIHTPercentage' = form.IhtPercentage
    /\ annualDailyMealAllowance' = calculateAnnualMealAllowance
    /\ monthlyMealAllowance' = calculateMonthlyMealAllowance
    /\ \E run \in {CallbackOfForm(form)} :
           /\ lastRun' = Some(run)
           /\ liquidSalarySimulations' =
                 IF run.err = "" THEN run.simulations ELSE liquidSalarySimulations
           /\ isLoading' = IF run.err = "" THEN FALSE ELSE isLoading
    /\ UNCHANGED <<form, displayedLoadingPhrases, pickedHasDuodecimos, destroyed>>
    /\ UNCHANGED engineVars
    /\ UNCHANGED resolveVars
    /\ UNCHANGED solverVars

\* ngOnDestroy(): clearLoadingTimer()
NgOnDestroy ==
    /\ ~ destroyed
    /\ destroyed' = TRUE
    /\ timers' = Cleared(timers)
    /\ loadingTimer' = None
    /\ UNCHANGED <<form, isLoading, displayedLoadingPhrases, liquidSalarySimulations,
                   pickedHasDuodecimos, pickedIHTPercentage, annualDailyMealAllowance,
                   monthlyMealAllowance, lastRun>>
    /\ UNCHANGED engineVars
    /\ UNCHANGED resolveVars
    /\ UNCHANGED solverVars

\* Time passes while no timer is due
Elapse ==
    /\ timers # {}
    /\ \A t \in timers : t.due > 0
    /\ timers' = {[t EXCEPT !.due = @ - TimeStep] : t \in timers}
    /\ UNCHANGED <<form, isLoading, displayedLoadingPhrases, liquidSalarySimulations,
                   loadingTimer, pickedHasDuodecimos, pickedIHTPercentage,
                   annualDailyMealAllowance, monthlyMealAllowance, destroyed, lastRun>>
    /\ UNCHANGED engineVars
    /\ UNCHANGED resolveVars
    /\ UNCHANGED solverVars

NextComponent ==
    \/ ComponentCalculate
    \/ \E t \in timers : IntervalTick(t)
    \/ \E t \in timers : TimeoutFires(t)
    \/ NgOnDestroy
    \/ Elapse

SpecComponent == InitComponent /\ [][NextComponent]_vars

\* The browser runs a due timer and time passes
SpecComponentLive ==
    /\ SpecComponent
    /\ WF_vars(Elapse)
    /\ WF_vars(\E t \in timers : IntervalTick(t))
    /\ WF_vars(\E t \in timers : TimeoutFires(t))

----------------------------------------------------------------------------
(* Properties of the withholding engine, checked under Spec *)

Called == Has(lastInput)
Succeeded == Called /\ out.err = "" /\ Has(out.res)
Result == out.res[1]
GrossOfCall == lastInput[1].grossSalary.v
DependentsOfCall == lastInput[1].dependents.v
TableOfCall == FindTable(dataAtCall[1].tables, Result.tableId)[1]

\* max(0, x) and rounding to cents, half up, stated on the scaled integer
MaxZero(d) == IF d.m < 0 THEN Zero ELSE d
HalfUpCents(d) ==
    LET s == MaxOf(d.e, 3)
        scaled == DScale(d, s)
        unit == Pow10(s - 2)
        cents == CHOOSE c \in ((scaled \div unit) - 1)..((scaled \div unit) + 1) :
                    2 * c * unit - unit <= 2 * scaled /\ 2 * scaled < 2 * c * unit + unit
    IN  Dec(cents, 2)

\* C1: a successful calculate returns
\*   irsWithheld = max(0, round2(gross*rate - deduction - additionalPerDependent*dependents))
\* with the band's unrounded deduction (additionalPerDependent 0 when the band has none),
\*   socialSecurity = round2(gross*socialSecurityRate),
\*   netSalary = round2(gross - irsWithheld - socialSecurity);
\* rate 0.212, deduction 158.18, gross 1200 gives 96.22 / 132.00 / 971.78 with no
\* dependents and 27.64 / 1040.36 with 2 dependents at 34.29 each.
C1_WithholdingFormula ==
    Succeeded =>
        LET band == Result.band
            apd == IF Has(band.additionalPerDependent)
                   THEN band.additionalPerDependent[1] ELSE Zero
            ded == resolveDeduction(band.deduction, GrossOfCall).v[1]
            raw == DSub(DSub(DMul(GrossOfCall, band.rate), ded),
                        DMul(apd, DependentsOfCall))
            ssRate == IF Has(lastInput[1].socialSecurityRate)
                      THEN lastInput[1].socialSecurityRate[1] ELSE Dec(11, 2)
            irs == MaxZero(HalfUpCents(raw))
            ss == HalfUpCents(DMul(GrossOfCall, ssRate))
        IN  /\ Result.irsWithheld = irs
            /\ Result.socialSecurity = ss
            /\ Result.netSalary = HalfUpCents(DSub(DSub(GrossOfCall, irs), ss))
            /\ (/\ band.rate = Dec(212, 3)
                /\ band.deduction = Literal(Dec(15818, 2))
                /\ GrossOfCall = Int2Dec(1200)
                /\ ssRate = Dec(11, 2)
                /\ DMul(apd, DependentsOfCall) = Zero)
               => /\ Result.irsWithheld = Dec(9622, 2)
                  /\ Result.socialSecurity = Int2Dec(132)
                  /\ Result.netSalary = Dec(97178, 2)
            /\ (/\ band.rate = Dec(212, 3)
                /\ band.deduction = Literal(Dec(15818, 2))
                /\ GrossOfCall = Int2Dec(1200)
                /\ ssRate = Dec(11, 2)
                /\ apd = Dec(3429, 2)
                /\ DependentsOfCall = Int2Dec(2))
               => /\ Result.irsWithheld = Dec(2764, 2)
                  /\ Result.netSalary = Dec(104036, 2)

\* a call in a formula band whose deduction is not a whole number of cents and
\* whose raw amount rounds differently once the deduction is rounded
C1_Witness ==
    /\ Succeeded
    /\ Result.band.deduction.type = "formula"
    /\ GrossOfCall = Dec(92011, 2)
    /\ DependentsOfCall = Zero
    /\ Result.irsWithheld = Dec(5, 2)
    /\ Result.netSalary = Dec(81885, 2)

\* The table of the claim: (maritalStatus, dependents >= 1, hasDisability) -> id
ClaimedTableId(ms, hasDependents, disabled) ==
    CASE ~disabled /\ ms = "married_one_holder" -> "III"
      [] ~disabled /\ ms \in {"single", "married_two_holders"} /\ hasDependents -> "II"
      [] ~disabled /\ ms \in {"single", "married_two_holders"} /\ ~hasDependents -> "I"
      [] disabled /\ ms = "married_one_holder" -> "VII"
      [] disabled /\ ms = "married_two_holders" /\ hasDependents -> "VI"
      [] disabled /\ ms = "married_two_holders" /\ ~hasDependents -> "IV"
      [] disabled /\ ms = "single" /\ hasDependents -> "V"
      [] disabled /\ ms = "single" /\ ~hasDependents -> "IV"

DisabledOfCall == lastInput[1].hasDisability = Some(TRUE)

\* C2: the table id is the claimed function of (maritalStatus, dependents >= 1,
\* hasDisability), one of I..VII: the id of every result returned, and the table
\* whose absence makes a call with a valid input fail.
C2_TableSelection ==
    /\ Succeeded =>
        /\ Result.tableId = ClaimedTableId(lastInput[1].maritalStatus,
                                           DependentsOfCall.m >= 1, DisabledOfCall)
        /\ Result.tableId \in {"I", "II", "III", "IV", "V", "VI", "VII"}
    /\ (Called /\ out.err = ErrTableNotFound) =>
        ~Has(FindTable(dataAtCall[1].tables,
                       ClaimedTableId(lastInput[1].maritalStatus,
                                      DependentsOfCall.m >= 1, DisabledOfCall)))

\* a disabled married two-holder taxpayer with dependents is given table VI
C2_Witness ==
    /\ Succeeded
    /\ DisabledOfCall
    /\ lastInput[1].maritalStatus = "married_two_holders"
    /\ DependentsOfCall.m >= 1
    /\ Result.tableId = "VI"

\* C3: the band returned is, of the table's bands with a numeric upTo >= gross,
\* the one with the least upTo, whatever the order the bands are stored in; when
\* there is none it is the band carrying over.  For upTo 920, upTo 1042,
\* over 1042: gross 920 selects the first, 921 the second, 1500 the open band.
C3_BandSelection ==
    Succeeded =>
        LET bands == TableOfCall.bands
            fits == {i \in 1..Len(bands) :
                        Has(bands[i].upTo) /\ DLeq(GrossOfCall, bands[i].upTo[1])}
        IN  /\ fits # {} =>
                \E i \in fits :
                    /\ Result.band = bands[i]
                    /\ \A j \in fits : DLeq(bands[i].upTo[1], bands[j].upTo[1])
            /\ fits = {} => Has(Result.band.over)
            /\ (\E p \in Permutations(1..3) :
                    bands = [i \in 1..3 |-> MockTableIBands[p[i]]]) =>
                /\ GrossOfCall = Int2Dec(920) => Result.band = MockTableIBands[1]
                /\ GrossOfCall = Int2Dec(921) => Result.band = MockTableIBands[2]
                /\ GrossOfCall = Int2Dec(1500) => Result.band = MockTableIBands[3]

\* the open band is stored first and the bounded bands in descending order,
\* and gross 921 selects the band up to 1042
C3_Witness ==
    /\ Succeeded
    /\ Has(dataAtCall)
    /\ TableOfCall.bands =
          << MockTableIBands[3], MockTableIBands[2], MockTableIBands[1] >>
    /\ GrossOfCall = Int2Dec(921)
    /\ Result.band.upTo = Some(Int2Dec(1042))

\* C4: the withheld tax of every result is >= 0
C4_WithheldNonNegative == Succeeded => Result.irsWithheld.m >= 0

\* a call whose raw amount is negative (the per-dependent deduction exceeds the
\* tax) and whose withheld tax is 0
C4_Witness ==
    /\ Succeeded
    /\ Result.irsWithheld = Zero
    /\ Has(Result.band.additionalPerDependent)
    /\ DependentsOfCall.m >= 1
    /\ DLt(DSub(DSub(DMul(GrossOfCall, Result.band.rate),
                     resolveDeduction(Result.band.deduction, GrossOfCall).v[1]),
                DMul(Result.band.additionalPerDependent[1], DependentsOfCall)),
           Zero)

\* The three conditions of the claim on the input
GrossIsPositiveFinite(inp) == inp.grossSalary.k = "num" /\ inp.grossSalary.v.m > 0
DependentsIsNonNegativeInteger(inp) ==
    /\ inp.dependents.k = "num"
    /\ inp.dependents.v.m >= 0
    /\ inp.dependents.v.e = 0
LocationIsContinente(inp) == inp.location = "continente"

\* C7: with a dataset loaded, calculate fails with a ValidationError, and
\* returns nothing, exactly when the gross salary is not finite or <= 0, or
\* dependents is negative or no integer, or the location is not continente
C7_ValidationError ==
    (Called /\ Has(dataAtCall)) =>
        /\ out.err \in ValidationError <=>
              ~(/\ GrossIsPositiveFinite(lastInput[1])
                /\ DependentsIsNonNegativeInteger(lastInput[1])
                /\ LocationIsContinente(lastInput[1]))
        /\ out.err \in ValidationError => out.res = None

\* a call with gross salary 0, otherwise valid, fails with the gross-salary message
C7_Witness ==
    /\ Called /\ Has(dataAtCall)
    /\ lastInput[1].grossSalary = Num(Zero)
    /\ DependentsIsNonNegativeInteger(lastInput[1])
    /\ LocationIsContinente(lastInput[1])
    /\ out.err = ErrGrossSalary
    /\ out.res = None

\* C8: while no dataset was ever set, every calculate fails with the
\* ConfigurationError, whatever the input
C8_DatasetNotSet ==
    (Called /\ dataAtCall = None) => (out.err \in ConfigurationError /\ out.res = None)

\* calculate({}) on a fresh service
C8_Witness ==
    /\ Called /\ dataAtCall = None
    /\ lastInput[1] = EmptyInput
    /\ out.err = ErrDatasetNotSet

\* The input of the last call passes the validation of calculate
ValidCall ==
    /\ Called
    /\ Has(dataAtCall)
    /\ GrossIsPositiveFinite(lastInput[1])
    /\ DependentsIsNonNegativeInteger(lastInput[1])
    /\ LocationIsContinente(lastInput[1])

\* The table id table selection resolves for the last call
TableIdOfCall ==
    pickTableId(lastInput[1].maritalStatus, DependentsOfCall, DisabledOfCall)

TableIsAbsent == \A i \in 1..Len(dataAtCall[1].tables) :
                    dataAtCall[1].tables[i].id # TableIdOfCall

\* C11: when the dataset in use holds no table with the id table selection
\* resolves, calculate fails with the TableNotFoundError and returns no result
\* (no other table of the dataset is used in its place)
C11_TableNotFound ==
    (ValidCall /\ TableIsAbsent) =>
        (out.err \in TableNotFoundError /\ out.res = None)

\* a married single-holder taxpayer (table III) against a dataset that holds
\* tables I and II only
C11_Witness ==
    /\ ValidCall /\ TableIsAbsent
    /\ TableIdOfCall = "III"
    /\ Len(dataAtCall[1].tables) = 2
    /\ out.err = ErrTableNotFound

\* The bands of the table selected for the last call
BandsOfCall == FindTable(dataAtCall[1].tables, TableIdOfCall)[1].bands

BoundedBandMatches ==
    \E i \in 1..Len(BandsOfCall) :
        Has(BandsOfCall[i].upTo) /\ DLeq(GrossOfCall, BandsOfCall[i].upTo[1])

OverBandExists == \E i \in 1..Len(BandsOfCall) : Has(BandsOfCall[i].over)

\* C12: with the selected table present, calculate fails with the
\* BandNotFoundError when the gross salary exceeds every numeric upTo of the
\* table and no band carries over, and only then: never when a bounded band
\* matches or a band carrying over exists
C12_BandNotFound ==
    (ValidCall /\ ~TableIsAbsent) =>
        /\ (~BoundedBandMatches /\ ~OverBandExists) =>
                (out.err \in BandNotFoundError /\ out.res = None)
        /\ (BoundedBandMatches \/ OverBandExists) => out.err \notin BandNotFoundError

\* gross 921 against a Table I whose only band ends at 920
C12_Witness ==
    /\ ValidCall /\ ~TableIsAbsent
    /\ Len(BandsOfCall) = 1
    /\ BandsOfCall[1].upTo = Some(Int2Dec(920))
    /\ GrossOfCall = Int2Dec(921)
    /\ out.err = ErrNoBand

\* gross 1500 above every upTo of a table that has an open band: no error
C12_WitnessOverBand ==
    /\ ValidCall /\ ~TableIsAbsent
    /\ ~BoundedBandMatches /\ OverBandExists
    /\ Succeeded
    /\ Has(Result.band.over)

\* The outcome of the last call had its gross salary been g
WithGross(g) == Calculate(dataAtCall, [lastInput[1] EXCEPT !.grossSalary = Num(g)])

ComparedGross == GrossValues \cup NeighbourGross \cup {Int2Dec(1000), Int2Dec(1200)}

\* C19 as claimed: of two valid inputs that differ in the gross salary only and
\* select the same band of the same table, the one with the lower gross salary
\* has the lower or the same net salary
C19_AsClaimed ==
    Succeeded =>
        \A g \in ComparedGross :
            (/\ DLeq(g, GrossOfCall)
             /\ WithGross(g).err = ""
             /\ WithGross(g).res[1].tableId = Result.tableId
             /\ WithGross(g).res[1].band = Result.band)
            => DLeq(WithGross(g).res[1].netSalary, Result.netSalary)

\* The same comparison for gross salaries that are more than one cent apart
MonotoneBeyondACent ==
    Succeeded =>
        \A g \in ComparedGross :
            (/\ DLeq(DAdd(g, Dec(2, 2)), GrossOfCall)
             /\ WithGross(g).err = ""
             /\ WithGross(g).res[1].tableId = Result.tableId
             /\ WithGross(g).res[1].band = Result.band)
            => DLeq(WithGross(g).res[1].netSalary, Result.netSalary)

\* A step that is a call of calculate, and one that is a call of setDataset
\* with another dataset than the last one supplied
CallStep ==
    /\ Has(lastInput')
    /\ <<lastInput, dataAtCall, out>>' # <<lastInput, dataAtCall, out>>
SupplyStep == supplied' # supplied

\* C20: every calculate call computes on the dataset passed to the latest
\* setDataset call before it (and fails with the dataset error before any);
\* a setDataset call changes no result already returned
C20_LatestDataset ==
    [][ /\ CallStep => (/\ supplied' = supplied
                        /\ out' = Calculate(supplied, lastInput'[1])
                        /\ (out'.err = "" =>
                               \E i \in 1..Len(supplied[1].tables) :
                                  /\ supplied[1].tables[i].id = out'.res[1].tableId
                                  /\ \E j \in 1..Len(supplied[1].tables[i].bands) :
                                        supplied[1].tables[i].bands[j] = out'.res[1].band))
        /\ SupplyStep => (out' = out /\ lastInput' = lastInput)
      ]_vars

\* a dataset was supplied after the last call: the result returned is still
\* that of the dataset of the call, and not what the new dataset gives
C20_Witness ==
    /\ Succeeded
    /\ Has(supplied) /\ supplied # dataAtCall
    /\ out = Calculate(dataAtCall, lastInput[1])
    /\ out # Calculate(supplied, lastInput[1])

----------------------------------------------------------------------------
(* Properties of resolveDeduction, checked under SpecResolve *)

\* The decimal literals the expressions of the model are written with, and
\* the number each denotes
DecimalLiterals ==
    {[text |-> Run0125, value |-> [m |-> 125, e |-> 3]],
     [text |-> Run260, value |-> [m |-> 26, e |-> 1]],
     [text |-> Run127385, value |-> [m |-> 127385, e |-> 2]],
     [text |-> Run2, value |-> [m |-> 2, e |-> 0]],
     [text |-> RunOneDot, value |-> [m |-> 1, e |-> 0]],
     [text |-> RunDotFive, value |-> [m |-> 5, e |-> 1]]}

RECURSIVE WithoutSpaces(_)
WithoutSpaces(expr) ==
    IF expr = << >> THEN << >>
    ELSE IF Head(expr) \in {" ", "\t"} THEN WithoutSpaces(Tail(expr))
    ELSE << Head(expr) >> \o WithoutSpaces(Tail(expr))

\* a*b*(c-R) written with the literals la, lb, lc and the letter r for R
FormulaText(la, lb, lc, r) ==
    la.text \o << "*" >> \o lb.text \o << "*", "(" >> \o lc.text \o << "-", r, ")" >>

\* The expression, whitespace stripped, is a*b*(c-R) for some decimal literals
\* a, b, c, with R written as one of the letters rs
HasForm(expr, rs) ==
    \E la, lb, lc \in DecimalLiterals : \E r \in rs :
        WithoutSpaces(expr) = FormulaText(la, lb, lc, r)

ResolveCalled == Has(resolved)
Resolved == resolved[1]

\* C9: resolveDeduction returns a literal deduction unchanged and, for a formula
\* whose whitespace-stripped expression is a*b*(c-R) with decimal literals a, b, c,
\* returns a*b*(c - R); '0.125 * 2.60 * (1273.85 - R)' with R = 1000 gives
\* 0.125*2.60*273.85 (= 89.00125).
C9_ResolveDeduction ==
    ResolveCalled =>
        /\ dedArg.type = "number" =>
              Resolved = [err |-> "", v |-> << dedArg.value >>]
        /\ dedArg.type = "formula" =>
              \A la, lb, lc \in DecimalLiterals :
                  WithoutSpaces(dedArg.expression) = FormulaText(la, lb, lc, "R") =>
                      /\ Resolved.err = ""
                      /\ Resolved.v =
                            << DMul(DMul(la.value, lb.value), DSub(lc.value, rArg)) >>
        /\ (dedArg = Formula(MockExpression) /\ rArg = Int2Dec(1000)) =>
              /\ Resolved.v = << [m |-> 8900125, e |-> 5] >>
              /\ Resolved.v = << DMul(DMul(Dec(125, 3), Dec(26, 1)), Dec(27385, 2)) >>

\* the formula of the tests resolved at R = 1000
C9_Witness ==
    /\ ResolveCalled
    /\ dedArg = Formula(MockExpression)
    /\ rArg = Int2Dec(1000)
    /\ Resolved = [err |-> "", v |-> << [m |-> 8900125, e |-> 5] >>]

\* a literal deduction returned as it is
C9_WitnessLiteral ==
    /\ ResolveCalled
    /\ dedArg = Literal(Dec(9471, 2))
    /\ Resolved = [err |-> "", v |-> << Dec(9471, 2) >>]

\* C10 as claimed: every formula expression that is not a*b*(c-R) with decimal
\* literals a, b, c fails with UnsupportedFormulaError and yields no value
C10_AsClaimed ==
    (ResolveCalled /\ dedArg.type = "formula" /\ ~HasForm(dedArg.expression, {"R"})) =>
        (Resolved.err \in UnsupportedFormulaError /\ Resolved.v = None)

\* C10 (amended): every formula expression that is not a*b*(c-R) with decimal
\* literals a, b, c, the letter R in either case, fails with
\* UnsupportedFormulaError and yields no value
C10_UnsupportedFormula ==
    (ResolveCalled /\ dedArg.type = "formula"
        /\ ~HasForm(dedArg.expression, {"R", "r"})) =>
        (Resolved.err \in UnsupportedFormulaError /\ Resolved.v = None)

\* '2 * R' fails as unsupported, and a run that is no number ('1.2.3' in the
\* place of a) fails as well
C10_Witness ==
    /\ ResolveCalled
    /\ \/ /\ dedArg = Formula(TwoTimesR)
          /\ Resolved = [err |-> ErrUnsupportedFormula, v |-> None]
       \/ /\ dedArg = Formula(Expression(Run123, Run260, Run127385, "a*b*(c-R)"))
          /\ Resolved = [err |-> ErrInvalidNumbers, v |-> None]

----------------------------------------------------------------------------
(* Properties of the reverse solver, checked under SpecSolver *)

GetProposalsCalled == Has(rin)
Returned == pc = "done"
Threw == pc = "failed"
Target == rin[1].targetNetSalary

ReturnedPercentages ==
    [k \in 1..Len(proposals) |-> proposals[k].flexBenefitsPercentage]

NonNegativeInput ==
    /\ DLeq(Zero, rin[1].targetNetSalary)
    /\ DLeq(Zero, rin[1].mealAllowanceDaily)
    /\ DLeq(Zero, rin[1].mealAllowanceDays)
    /\ DLeq(Zero, rin[1].mealAllowanceMonths)
    /\ DLeq(Zero, rin[1].ihtPercentage)
    /\ DLeq(Zero, rin[1].tsu)
    /\ DLeq(Zero, rin[1].ssRate)

\* C5 as claimed: a call of getProposals with location 'continente', a loaded
\* dataset and non-negative target, meal allowance, IHT, TSU and rate returns,
\* and returns 7 proposals whose percentages are 0, 5, 10, 15, 20, 25, 30
C5_AsClaimed ==
    (/\ GetProposalsCalled
     /\ pc \in {"done", "failed"}
     /\ Has(dataAtCall)
     /\ rin[1].location = "continente"
     /\ NonNegativeInput) =>
        (Returned /\ ReturnedPercentages = << 0, 5, 10, 15, 20, 25, 30 >>)

\* The forward mapping of the call, from annual cost to the outcome of
\* calculateOutputs, sampled at the costs SampleStep, 2 * SampleStep, ...,
\* SampleCount * SampleStep and at the top of the search range
SampleStep == 400
SampleCount == 120

SampledForward(pct) ==
    [j \in 1..(SampleCount + 1) |->
        calculateOutputs(dataAtCall, rin[1],
                         DyInt(IF j <= SampleCount THEN j * SampleStep ELSE SearchHigh),
                         pct)]

\* The forward mapping is non-decreasing, where it is defined
NonDecreasing(f) ==
    \A j \in 1..SampleCount :
        (f[j].err = "" /\ f[j + 1].err = "") =>
            DLeq(f[j].res[1].totalNetMax, f[j + 1].res[1].totalNetMax)

\* The target lies between two values the forward mapping takes in the range
Reaches(f, target) ==
    /\ f[SampleCount + 1].err = ""
    /\ DLeq(target, f[SampleCount + 1].res[1].totalNetMax)
    /\ \E j \in 1..SampleCount :
           f[j].err = "" /\ DLeq(f[j].res[1].totalNetMax, target)

MonotoneAndAttainable(pct) ==
    NonDecreasing(SampledForward(pct)) /\ Reaches(SampledForward(pct), Target)

\* The forward mapping takes the target, exactly, at the cost 1/512 above
\* the annual cost of proposal k
AttainedBesideResult(k) ==
    \E beside \in {calculateOutputs(dataAtCall, rin[1],
                                    DyAdd(proposals[k].annualCost,
                                          Dyadic(0, << LimbBase \div 512 >>)),
                                    proposals[k].flexBenefitsPercentage)} :
        beside.err = "" /\ beside.res[1].totalNetMax = Target

\* The tax the engine withholds from grossSalary under a given band
WithheldUnder(band, grossSalary, dependents) ==
    IrsWithheld(IrsRaw(grossSalary, band.rate,
                       resolveDeduction(band.deduction, grossSalary).v[1],
                       OrElse(band.additionalPerDependent, Zero), dependents))

\* At every boundary of the table of the call the band below and the band
\* above withhold the same tax, to the cent
ContinuousAcrossBands ==
    /\ Has(dataAtCall)
    /\ \E table \in {FindTable(dataAtCall[1].tables,
                               pickTableId(rin[1].maritalStatus,
                                           Int2Dec(rin[1].dependents), FALSE))} :
        /\ Has(table)
        /\ \A j \in 1..Len(table[1].bands) :
            Has(table[1].bands[j].upTo) =>
                \E above \in {pickBand(table[1].bands,
                                       DAdd(table[1].bands[j].upTo[1], Dec(1, 3)))} :
                \E below \in {WithheldUnder(table[1].bands[j],
                                            table[1].bands[j].upTo[1],
                                            Int2Dec(rin[1].dependents))} :
                    /\ above.err = ""
                    /\ \E over \in {WithheldUnder(above.band[1],
                                                  table[1].bands[j].upTo[1],
                                                  Int2Dec(rin[1].dependents))} :
                           /\ DLeq(DSub(below, over), Dec(1, 2))
                           /\ DLeq(DSub(over, below), Dec(1, 2))

\* targetNetSalary - 1 <= totalNetMax < targetNetSalary + 1
WithinOneUnit(k) ==
    /\ DLeq(DSub(Target, Int2Dec(1)), proposals[k].totalNetMax)
    /\ DLt(proposals[k].totalNetMax, DAdd(Target, Int2Dec(1)))

HeldProposals ==
    {proposals[k] : k \in 1..Len(proposals)}
        \cup (IF Has(bestResult) THEN {bestResult[1]} ELSE {})

\* The engine's result for the solver's input at a gross salary and a rate
EngineResult(gross, rate) ==
    Calculate(dataAtCall,
              IrsInput(Num(gross), rin[1].maritalStatus, rin[1].location,
                       Num(Int2Dec(rin[1].dependents)), None, Some(rate))).res[1]

GrossOf(p) == DAdd(p.monthlyBaseSalary, p.monthlyIHT)

\* C13: for every candidate annual cost and percentage, with
\* gross = monthlyBaseSalary + monthlyIHT, the proposal has
\*   totalNetMax = netSalary(gross, ssRate) + monthlyMealAllowance + monthlyBenefits
\*   totalNetMin = (gross + monthlyBenefits) - irsWithheld(gross + monthlyBenefits, 0)
\*                 - socialSecurity(gross, ssRate) + monthlyMealAllowance
C13_NetMaxNetMin ==
    \A p \in HeldProposals :
        /\ p.totalNetMax =
              DAdd(DAdd(EngineResult(GrossOf(p), rin[1].ssRate).netSalary,
                        p.monthlyMealAllowance),
                   p.monthlyBenefits)
        /\ p.totalNetMin =
              DAdd(DSub(DSub(DAdd(GrossOf(p), p.monthlyBenefits),
                             EngineResult(DAdd(GrossOf(p), p.monthlyBenefits),
                                          Zero).irsWithheld),
                        EngineResult(GrossOf(p), rin[1].ssRate).socialSecurity),
                   p.monthlyMealAllowance)

\* a returned proposal with 30 % of benefits whose two engine calls withhold
\* different tax
C13_Witness ==
    /\ Returned
    /\ Len(proposals) = 7
    /\ proposals[7].flexBenefitsPercentage = 30
    /\ DLt(Zero, proposals[7].monthlyBenefits)
    /\ DLt(proposals[7].irs,
           EngineResult(DAdd(GrossOf(proposals[7]), proposals[7].monthlyBenefits),
                        Zero).irsWithheld)

\* What a proposal costs the employer in a year, in thousandths:
\* gross * months * (1 + TSU) + monthlyBenefits * 12 + annual meal allowance
EmployerCost(p) ==
    MulDiv(Thousandths(GrossOf(p)) * MonthsToMultiply(rin[1]),
           10000 + DScale(rin[1].tsu, 2), 10000)
        + Thousandths(p.monthlyBenefits) * 12
        + Thousandths(AnnualDailyMealAllowance(rin[1]))

\* One euro, in thousandths: the allowance for amounts floored to thousandths
CostTolerance == 1000

CostIdentity(p) ==
    /\ EmployerCost(p) <= ToThousandths(p.annualCost) + CostTolerance
    /\ ToThousandths(p.annualCost) <= EmployerCost(p) + CostTolerance

\* C14 as claimed: for every candidate annual cost c and every percentage,
\*   monthlyGross * months * (1 + TSU) + monthlyBenefits * 12 + annualMealAllowance = c
\* (to the euro)
C14_AsClaimed == \A p \in HeldProposals : CostIdentity(p)

\* The identity of C14 on the proposals without benefits
CostIdentityWithoutBenefits ==
    \A p \in HeldProposals : p.flexBenefitsPercentage = 0 => CostIdentity(p)

\* monthlyGross * IHT% / (100 + IHT%), in thousandths
ClaimedIHT(p) ==
    MulDiv(Thousandths(GrossOf(p)), DScale(rin[1].ihtPercentage, 2),
           10000 + DScale(rin[1].ihtPercentage, 2))

\* C15 as claimed: in every proposal monthlyIHT = monthlyGross * IHT% / (100 + IHT%)
\* (to the euro) and monthlyBaseSalary = monthlyGross - monthlyIHT
C15_AsClaimed ==
    \A p \in HeldProposals :
        /\ Thousandths(p.monthlyIHT) <= ClaimedIHT(p) + CostTolerance
        /\ ClaimedIHT(p) <= Thousandths(p.monthlyIHT) + CostTolerance
        /\ p.monthlyBaseSalary = DSub(GrossOf(p), p.monthlyIHT)

\* What the proposals do satisfy: monthlyIHT is IHT% of the monthly gross
\* (to a thousandth), and base + IHT = monthly gross
IhtOfGross ==
    \A p \in HeldProposals :
        /\ Thousandths(p.monthlyIHT) =
              MulDiv(Thousandths(GrossOf(p)), DScale(rin[1].ihtPercentage, 2), 10000)
        /\ p.monthlyBaseSalary = DSub(GrossOf(p), p.monthlyIHT)

\* A step that is one iteration of the search, and a step that returns its result
IterationStep == pc = "loop" /\ pc' = "loop" /\ iter' = iter + 1
ReturnStep == Len(proposals') = Len(proposals) + 1
SearchStarts == pc' = "loop" /\ iter' = 0 /\ (pc # "loop" \/ iter # 0)

IterationAsClaimed ==
    /\ iter < 50
    /\ DyLeq(low, Midpoint(low, high)) /\ DyLeq(Midpoint(low, high), high)
    /\ bestResult' = calculateOutputs(data, rin[1], Midpoint(low, high), loopPct).res
    /\ bestResult'[1].annualCost = Midpoint(low, high)
    /\ IF DLt(bestResult'[1].totalNetMax, Target)
       THEN low' = Midpoint(low, high) /\ high' = high
       ELSE high' = Midpoint(low, high) /\ low' = low

\* C16: a search starts from low = 0 and high = 1,000,000; each iteration
\* evaluates the forward calculation at mid = (low + high) / 2 and sets low = mid
\* if totalNetMax(mid) < targetNetSalary, high = mid otherwise; a search returns
\* only after its 50th iteration, and returns the result of that iteration;
\* before the 50th iteration a search is left only by an error
C16_FiftyIterations ==
    [][ /\ SearchStarts => (low' = DyInt(0) /\ high' = DyInt(1000000)
                            /\ bestResult' = None)
        /\ IterationStep => IterationAsClaimed
        /\ ReturnStep => (/\ iter = 50
                          /\ bestResult[1].annualCost \in {low, high}
                          /\ proposals'[Len(proposals')] = bestResult[1])
        /\ (pc = "loop" /\ iter # 50 /\ ~IterationStep) => pc' = "failed"
      ]_vars

\* the 50th iteration of the search for 30 % is done, with low below high still
C16_Witness ==
    /\ pc = "loop"
    /\ iter = 50
    /\ loopPct = 30
    /\ Len(proposals) = 6
    /\ low # high
    /\ bestResult[1].annualCost \in {low, high}

\* The gross salary and the monthly benefits of the candidate mid, and the
\* errors of the engine calls calculateOutputs makes for it
GrossAt(mid) == MonthlyValueWithoutBenefits(rin[1], mid, loopPct)
BenefitsAt(mid) == MonthlyValueToBenefits(rin[1], mid, loopPct)
EngineErrorsAt(mid) ==
    {EngineCall(data, rin[1], GrossAt(mid), rin[1].ssRate).err,
     EngineCall(data, rin[1], GrossAt(mid) + BenefitsAt(mid), Zero).err} \ {""}

EngineErrors ==
    ConfigurationError \cup ValidationError \cup TableNotFoundError
        \cup BandNotFoundError \cup UnsupportedFormulaError \cup {ErrInvalidDeduction}

\* C17: when an engine call of an iteration fails, getProposals fails with the
\* error of that call; a failed call returns nothing and does not go on with
\* another percentage; what getProposals returns is the full list, one
\* proposal for each of 0, 5, ..., 30
C17_ErrorPropagates ==
    [][ /\ (pc = "loop" /\ iter < 50 /\ pc' # pc) => pc' = "failed"
        /\ (pc = "loop" /\ iter < 50 /\ EngineErrorsAt(Midpoint(low, high)) # {})
              => (/\ pc' = "failed"
                  /\ rerr' \in EngineErrorsAt(Midpoint(low, high))
                  /\ lastInput' = lastInput /\ data' = data)
        /\ (pc = "loop" /\ loopPct' # loopPct)
              => (/\ Len(proposals') = Len(proposals) + 1
                  /\ proposals'[Len(proposals')].flexBenefitsPercentage = loopPct)
        /\ pc' = "failed" => (pc \in {"loop", "failed"} /\ rerr' \in EngineErrors)
        /\ pc = "failed" => (pc' = "failed" \/ (pc' = "loop" /\ proposals' = << >>))
        /\ pc' = "done" =>
              (/\ rerr' = ""
               /\ [k \in 1..Len(proposals') |-> proposals'[k].flexBenefitsPercentage]
                     = << 0, 5, 10, 15, 20, 25, 30 >>)
      ]_vars

\* the search for 20 % fails with the gross-salary error after four proposals
\* were computed, and getProposals has thrown
C17_Witness ==
    /\ Threw
    /\ rerr = ErrGrossSalary
    /\ loopPct = 20
    /\ Len(proposals) = 4

\* getProposals fails at once for another location, without a dataset, and
\* for a table the dataset lacks
C17_WitnessLocation == Threw /\ rerr = ErrLocation /\ loopPct = 0 /\ iter = 0
C17_WitnessNoDataset == Threw /\ rerr = ErrDatasetNotSet /\ loopPct = 0 /\ iter = 0
C17_WitnessNoTable == Threw /\ rerr = ErrTableNotFound /\ loopPct = 0 /\ iter = 0

----------------------------------------------------------------------------
(* Properties of calculate among other calls, checked under SpecCalls *)

\* A step that is a call of calculate
CalculateStep ==
    /\ pc # "loop" /\ pc' = pc /\ data' = data
    /\ Has(lastInput')
    /\ <<lastInput, dataAtCall, out, earlier>>' # <<lastInput, dataAtCall, out, earlier>>

HalvesExactly == DyAdd(DyAdd(high', high'), low) = DyAdd(DyAdd(low', low'), high)

\* ... to within 2^-33 on the doubled width, 2^-34 on the width
RoundingAllowance == Dyadic(0, << 0, 0, 4096 >>)
HalvesNearly ==
    /\ DyLeq(DyAdd(DyAdd(high', high'), low),
             DyAdd(DyAdd(DyAdd(low', low'), high), RoundingAllowance))
    /\ DyLeq(DyAdd(DyAdd(low', low'), high),
             DyAdd(DyAdd(DyAdd(high', high'), low), RoundingAllowance))

\* 0 <= low <= mid <= high <= 1,000,000 around an iteration: mid is the
\* annual cost of the iteration's result, and becomes low or high
OrderedAroundMid ==
    /\ DyLeq(DyInt(0), low) /\ DyLeq(low, bestResult'[1].annualCost)
    /\ DyLeq(bestResult'[1].annualCost, high) /\ DyLeq(high, DyInt(1000000))
    /\ DyLeq(DyInt(0), low') /\ DyLeq(low', high') /\ DyLeq(high', DyInt(1000000))
    /\ bestResult'[1].annualCost \in {low', high'}

ReturnsLastMidpoint ==
    /\ proposals'[Len(proposals')].annualCost = bestResult[1].annualCost
    /\ proposals'[Len(proposals')].annualCost \in {low, high}
    /\ DyLeq(DyInt(0), proposals'[Len(proposals')].annualCost)
    /\ DyLeq(proposals'[Len(proposals')].annualCost, DyInt(1000000))

\* C23 as claimed: after every iteration 0 <= low <= mid <= high <= 1,000,000
\* and high - low is exactly half its previous value; the annual cost
\* returned is the 50th midpoint, in [0, 1,000,000]
C23_AsClaimed ==
    [][ /\ IterationStep => (OrderedAroundMid /\ HalvesExactly)
        /\ ReturnStep => ReturnsLastMidpoint
      ]_vars

\* C23 (amended): the same, with high - low exactly half its previous value
\* in the first 39 iterations and half its previous value to within 2^-34
\* in the later ones, where the midpoint is rounded to a double
C23_HalvingUpToRounding ==
    [][ /\ IterationStep => (/\ OrderedAroundMid
                             /\ iter < 39 => HalvesExactly
                             /\ HalvesNearly)
        /\ ReturnStep => ReturnsLastMidpoint
      ]_vars

\* getProposals has returned; the annual cost of the proposal for 0 % is the
\* last midpoint of its search, strictly inside the range and no integer
C23_Witness ==
    /\ Returned
    /\ DyLeq(DyInt(1), proposals[1].annualCost)
    /\ DyLeq(proposals[1].annualCost, DyInt(999999))
    /\ Len(proposals[1].annualCost.f) >= 3

\* C24 as claimed: every proposal getProposals returns has
\* totalNetMin <= totalNetMax
C24_AsClaimed ==
    Returned => \A k \in 1..Len(proposals) :
                    DLeq(proposals[k].totalNetMin, proposals[k].totalNetMax)

\* C25: in every proposal getProposals returns, socialSecurityMin equals
\* socialSecurityMax, both round2(gross * ssRate) on the gross salary without
\* the benefits
C25_SameSocialSecurity ==
    Returned => \A k \in 1..Len(proposals) :
                    /\ proposals[k].socialSecurityMin = proposals[k].socialSecurityMax
                    /\ proposals[k].socialSecurityMax
                          = round2(DMul(GrossOf(proposals[k]), rin[1].ssRate))

\* a returned proposal with 30 % of benefits, on which the contribution of the
\* gross salary with the benefits would be a larger one
C25_Witness ==
    /\ Returned
    /\ Len(proposals) = 7
    /\ DLt(Zero, proposals[7].monthlyBenefits)
    /\ DLt(Zero, proposals[7].socialSecurityMin)
    /\ DLt(proposals[7].socialSecurityMin,
           round2(DMul(DAdd(GrossOf(proposals[7]), proposals[7].monthlyBenefits),
                       rin[1].ssRate)))

\* The target is greater than the totalNetMax obtained at annual cost
\* 1,000,000, for the percentage of the search in progress
AtSearchHigh(pct) == calculateOutputs(dataAtCall, rin[1], DyInt(SearchHigh), pct)
BeyondSearchHigh(pct) ==
    /\ AtSearchHigh(pct).err = ""
    /\ DLt(AtSearchHigh(pct).res[1].totalNetMax, Target)

\* 1,000,000 / 2^50 = 15625 / 2^44, and 2^-30
FiftiethWidth == Dyadic(0, << 0, 0, 31250 >>)
TwoToMinus30 == Dyadic(0, << 0, 1 >>)

\* p is a proposal whose annual cost is within width of 1,000,000 and whose
\* totalNetMax is below the target
StopsAtSearchHigh(p, width) ==
    /\ DyLeq(p.annualCost, DyInt(SearchHigh))
    /\ DyLeq(DyInt(SearchHigh), DyAdd(p.annualCost, width))
    /\ DLt(p.totalNetMax, Target)

\* Every step of getProposals for a percentage whose target is beyond the
\* range raises no error, takes low = mid in an iteration and returns a
\* proposal within width of 1,000,000
SilentBeyondRange(pct, width) ==
    /\ pc' # "failed"
    /\ IterationStep => (low' = bestResult'[1].annualCost /\ high' = high)
    /\ ReturnStep => StopsAtSearchHigh(proposals'[Len(proposals')], width)

\* C26 as claimed: if targetNetSalary is greater than the totalNetMax at annual
\* cost 1,000,000, getProposals raises no error, every branch takes
\* low = mid, and each returned proposal has annualCost within
\* 1,000,000 / 2^50 of 1,000,000 with totalNetMax < targetNetSalary
C26_AsClaimed ==
    [][ (pc = "loop" /\ BeyondSearchHigh(loopPct))
            => SilentBeyondRange(loopPct, FiftiethWidth) ]_vars

\* The target is greater than the totalNetMax obtained in the upper half of
\* the range, sampled at UpperSamples + 1 costs from 500,000 to 1,000,000
UpperSamples == 16
UpperCost(j) == DyInt(SearchHigh \div 2 + (j * (SearchHigh \div 2)) \div UpperSamples)
BeyondUpperHalf(pct) ==
    \A j \in 0..UpperSamples :
        \E at \in {calculateOutputs(dataAtCall, rin[1], UpperCost(j), pct)} :
            at.err = "" /\ DLt(at.res[1].totalNetMax, Target)

\* C26 (amended): if targetNetSalary is greater than the totalNetMax at every
\* annual cost from 500,000 to 1,000,000, the same with annualCost within
\* 2^-30 of 1,000,000
C26_SilentWithinRounding ==
    [][ (pc = "loop" /\ BeyondSearchHigh(loopPct) /\ BeyondUpperHalf(loopPct))
            => SilentBeyondRange(loopPct, TwoToMinus30)
      ]_vars

\* the search for a target that is beyond the totalNetMax at 1,000,000, but
\* not beyond the one at 750,000, lowers high
C26_WitnessWithinRange ==
    /\ pc = "loop"
    /\ BeyondSearchHigh(loopPct)
    /\ ~ BeyondUpperHalf(loopPct)
    /\ iter = 2
    /\ high = DyInt(750000)

\* getProposals has returned seven proposals for a target beyond the range;
\* the first lies below 1,000,000, further from it than 1,000,000 / 2^50
C26_Witness ==
    /\ Returned
    /\ Len(proposals) = 7
    /\ \A k \in 1..7 : BeyondSearchHigh(proposals[k].flexBenefitsPercentage)
    /\ StopsAtSearchHigh(proposals[1], TwoToMinus30)
    /\ ~ StopsAtSearchHigh(proposals[1], FiftiethWidth)

\* A step in which calculate or getProposals runs
CallHappens ==
    \/ <<lastInput, dataAtCall, out, earlier>>' # <<lastInput, dataAtCall, out, earlier>>
    \/ solverVars' # solverVars

\* C22: a step of calculate or of getProposals, returning or throwing, leaves
\* the dataset as it was (its tables, and the stored order and the contents of
\* the bands of every table), and getProposals leaves its input as it was
C22_DatasetUnchanged ==
    [][ /\ CallHappens => (data' = data /\ supplied' = supplied)
        /\ pc = "loop" => rin' = rin
      ]_vars

\* calculate returned the band up to 1042 and getProposals has run, on a
\* dataset whose Table I is stored open band first, and it is stored so still
C22_Witness ==
    /\ Succeeded
    /\ Result.band.upTo = Some(Int2Dec(1042))
    /\ Threw /\ Len(proposals) = 1
    /\ data = dataAtCall
    /\ data = Some(MockDataset(DescendingBands))

----------------------------------------------------------------------------
(* Properties of round2 on doubles, checked under SpecRound *)

RoundCalled == Has(rounded)

\* C21 as claimed, for the social security of a call: the field is
\* grossSalary * rate rounded half up to 2 decimals, a value exactly halfway
\* between two cents going to the higher cent
C21_AsClaimed ==
    RoundCalled => rounded[1] = HalfUpCents(DMul(roundArg, DefaultSocialSecurityRate))

\* What round2 does guarantee: a whole number of cents, the nearest cent below
\* or above the exact product
NearestCentEitherSide ==
    RoundCalled =>
        /\ rounded[1].e <= 2
        /\ DLeq(DSub(DMul(roundArg, DefaultSocialSecurityRate), Dec(5, 3)), rounded[1])
        /\ DLeq(rounded[1], DAdd(DMul(roundArg, DefaultSocialSecurityRate), Dec(5, 3)))

----------------------------------------------------------------------------
(* Properties of SimulatorComponent, checked under SpecComponent *)

IsPrefix(shown, all) ==
    /\ Len(shown) <= Len(all)
    /\ \A k \in 1..Len(shown) : shown[k] = all[k]

\* The timeout of the calculate() that started the interval t is still to fire
TimeoutPending(t) == \E u \in timers : ~ u.repeats /\ u.interval = t.id

\* C28 as claimed: whatever the interleaving of calculate(), interval ticks,
\* timeouts and ngOnDestroy, displayedLoadingPhrases is a prefix of
\* loadingPhrases (in order, no duplicate, at most 3), and no interval is
\* running whose calculate() has had its timeout fire
C28_AsClaimed ==
    /\ IsPrefix(displayedLoadingPhrases, loadingPhrases)
    /\ \A t \in timers : t.repeats => TimeoutPending(t)

\* C27 as claimed: whatever the form holds, once calculate() has set isLoading
\* the timeout callback follows, and resets isLoading with
\* liquidSalarySimulations populated; isLoading does not stay true for ever
C27_AsClaimed ==
    [](isLoading => <>(~ isLoading /\ liquidSalarySimulations # << >>))

\* The timeout callback has run
CallbackRan == Has(lastRun)

\* The category the form stands for: single whatever the dependents, married
\* with exactly one dependent one holder, married otherwise two holders
CategoryOfForm ==
    IF form.maritalStatus = "single" THEN "single"
    ELSE IF form.dependents = 1 THEN "married_one_holder"
    ELSE "married_two_holders"

\* C29: every engine call of one run of the callback, those of the reverse
\* service included, carries the category of the form (single; married with
\* one dependent, one holder; married otherwise, two holders) and the form's
\* number of dependents, and there is such a call
C29_CallsCarryCategory ==
    CallbackRan =>
        /\ lastRun[1].calls # {}
        /\ \A c \in lastRun[1].calls :
              c.maritalStatus = CategoryOfForm /\ c.dependents = form.dependents

\* A married form with one dependent and duodecimos, by target net salary:
\* the reverse service and mapToSimulationResult have called the engine
C29_Witness ==
    /\ CallbackRan
    /\ lastRun[1].err = ""
    /\ Len(lastRun[1].simulations) = 7
    /\ form.maritalStatus = "married" /\ form.dependents = 1
    /\ form.calculateBy = "targetNetSalary" /\ form.hasDuodecimos
    /\ lastRun[1].calls = {[maritalStatus |-> "married_one_holder", dependents |-> 1]}

\* The callback has assigned its results
ResultsAssigned == CallbackRan /\ lastRun[1].err = ""

\* A result r of the proposal p without duodecimos: no duodecimo, no IRS on
\* one, and the IRS of the proposal
PlainResult(r, p) ==
    /\ r.duodecimoSF = Zero /\ r.duodecimoSN = Zero
    /\ r.irsSF = Zero /\ r.irsSN = Zero
    /\ r.irs = p.irs

\* The IRS of a result with duodecimos: the same on either duodecimo, and in
\* all at most a cent above the IRS of the proposal
SplitIrs(r, p) ==
    /\ r.irsSF = r.irsSN
    /\ DLeq(DAdd(DAdd(r.irs, r.irsSF), r.irsSN), DAdd(p.irs, Dec(1, 2)))

LeastBaseWithDuodecimo == Dec(7, 2)

C30_WitnessLeastBase ==
    /\ ResultsAssigned
    /\ form.hasDuodecimos
    /\ lastRun[1].proposals[1].monthlyBaseSalary = LeastBaseWithDuodecimo
    /\ lastRun[1].simulations[1].duodecimoSF = Dec(1, 2)

====
